---- MODULE Spec2Model ----
(***************************************************************************)
(* Argus explorer: the breadth-first crawl of ExplorerEngine               *)
(* (src/src/explorer/explorer-engine.ts, Playwright) and of                *)
(* PuppeteerExplorerEngine (src/src/explorer/puppeteer-explorer.ts), with  *)
(* the URL helpers of src/src/explorer/crawler.ts; the CaptureEngine       *)
(* (src/src/capture/capture-engine.ts) with captureScreenshot; and the     *)
(* comparison engine (compareImages, runComparison) behind the compare     *)
(* command (src/src/cli/commands/compare.ts).                              *)
(*                                                                         *)
(* A URL string is modelled by its parsed form: scheme, host, and the      *)
(* path, search and hash as sequences of tokens ("/", ".", "?", "#" and    *)
(* words).  The string the Puppeteer normalizeUrl builds for the root page *)
(* ("https://site.test", no path) is the record with the empty path.       *)
(***************************************************************************)
EXTENDS Integers, Sequences, FiniteSets, TLC

\* ------------------------------------------------------------------ bounds
\* largest maxDepth / maxPages option tried, links per rendered page,
\* configured viewports, browser failures injected per run, configured routes
\* and largest concurrency of a capture, actions configured for a route,
\* relative PNG paths under baselines/ and current/, skipped queue items
\* counted
MaxDepthB == 2
MaxPagesB == 3
MaxLinks == 2
NumViewports == 1
MaxFaults == 1
MaxRoutes == 3
MaxConcurrency == 2
MaxActions == 2
MaxFiles == 2
MaxSkips == 3
MaxChunks == 4

\* ------------------------------------------------------------ URL strings
SiteHost == "site.test"

MkUrl(scheme, host, path, search, hash) ==
    [scheme |-> scheme, host |-> host, path |-> path, search |-> search, hash |-> hash]

SiteUrl(path) == MkUrl("https:", SiteHost, path, <<>>, <<>>)

\* options.startUrl
StartUrl == SiteUrl(<<"/">>)

\* String.prototype.toLowerCase on one token
LowerTok(t) ==
    CASE t = "PNG" -> "png"
      [] t = "LOGOUT" -> "logout"
      [] t \in {"Home", "HOME"} -> "home"
      [] OTHER -> t

LowerSeq(s) == [i \in 1..Len(s) |-> LowerTok(s[i])]

\* new URL(s): the string produced by the Puppeteer normalizeUrl may lack the
\* path; the parser gives every http(s) URL the path "/"
ParseUrl(u) == IF u.path = <<>> THEN [u EXCEPT !.path = <<"/">>] ELSE u

\* URL.origin: "null" for a scheme that has no origin
OriginOf(u) ==
    IF u.scheme \in {"http:", "https:"} THEN <<u.scheme, u.host>> ELSE <<"null">>

\* URL.toString() as a token sequence
UrlTokens(u) ==
    (IF u.scheme \in {"http:", "https:"} THEN <<u.scheme, "/", "/", u.host>> ELSE <<u.scheme>>)
        \o u.path \o u.search \o u.hash

RECURSIVE StripSlashes(_)
\* String.replace(/\/+$/, '')
StripSlashes(p) ==
    IF p # <<>> /\ p[Len(p)] = "/" THEN StripSlashes(SubSeq(p, 1, Len(p) - 1)) ELSE p

\* new URL(s) throws: s is a relative reference or no URL at all
Unparsable(u) == u.scheme \in {"relative", "invalid"}

\* crawler.ts normalizeUrl(url, removeQuery)
CrawlerNormalizeUrl(url, removeQuery) ==
    IF Unparsable(url) THEN url
    ELSE LET parsed == ParseUrl(url)
             p == parsed.path
         IN  [parsed EXCEPT
                 !.hash = <<>>,
                 !.search = IF removeQuery THEN <<>> ELSE parsed.search,
                 !.path = IF p # <<"/">> /\ p[Len(p)] = "/"
                          THEN (IF Len(p) = 1 THEN <<"/">> ELSE SubSeq(p, 1, Len(p) - 1))
                          ELSE p]

\* puppeteer-explorer.ts normalizeUrl(url)
PuppeteerNormalizeUrl(url) ==
    IF Unparsable(url) THEN url
    ELSE LET parsed == ParseUrl(url)
         IN  [parsed EXCEPT !.hash = <<>>, !.path = StripSlashes(parsed.path)]

\* ------------------------------------------------------------ URL filters
\* options.exclude / config.explorer.include of the run
ExcludePatterns == << <<"/", "logout">> >>
IncludePatterns == <<>>

IsSuffix(suf, s) ==
    /\ Len(suf) <= Len(s)
    /\ SubSeq(s, Len(s) - Len(suf) + 1, Len(s)) = suf

\* String.prototype.includes
Includes(s, sub) ==
    \E i \in 0..(Len(s) - Len(sub)) : SubSeq(s, i + 1, i + Len(sub)) = sub

RECURSIVE GlobMatch(_, _)
\* crawler.ts globToRegex(pattern).test(s): anchored, case-insensitive,
\* "*" any run of characters, "?" any one character (a token is a character)
GlobMatch(pat, s) ==
    IF pat = <<>> THEN s = <<>>
    ELSE IF pat[1] = "*"
         THEN \/ GlobMatch(Tail(pat), s)
              \/ (s # <<>> /\ GlobMatch(pat, Tail(s)))
    ELSE /\ s # <<>>
         /\ (pat[1] = "?" \/ LowerTok(pat[1]) = LowerTok(s[1]))
         /\ GlobMatch(Tail(pat), Tail(s))

\* crawler.ts matchesPattern
MatchesPattern(path, patterns) ==
    \E i \in 1..Len(patterns) : GlobMatch(patterns[i], path)

\* crawler.ts isInternalUrl
IsInternalUrl(url, baseUrl) == OriginOf(ParseUrl(url)) = OriginOf(ParseUrl(baseUrl))

\* crawler.ts resourceExtensions
ResourceExtensions ==
    {"png", "jpg", "jpeg", "gif", "svg", "webp", "ico", "css", "js", "json", "xml",
     "txt", "pdf", "woff", "woff2", "ttf", "eot", "otf", "mp3", "mp4", "webm", "ogg",
     "wav", "zip", "tar", "gz", "rar"}

\* seeded fault: the extension compared without lowering the path
HasResourceExtension_CaseSensitive(pathname) ==
    \E e \in ResourceExtensions : IsSuffix(<<".", e>>, pathname)

\* crawler.ts: resourceExtensions.some((ext) => pathname.toLowerCase().endsWith(ext))
HasResourceExtension(pathname) ==
    \E e \in ResourceExtensions : IsSuffix(<<".", e>>, LowerSeq(pathname))

\* seeded fault: a match of an include glob accepts the URL before the exclude
\* globs are tested
CrawlerShouldCrawl_IncludeFirst(url, baseUrl, exclude, include) ==
    LET pathname == ParseUrl(url).path
    IN  /\ url.scheme \in {"http:", "https:"}
        /\ IsInternalUrl(url, baseUrl)
        /\ ~ HasResourceExtension(pathname)
        /\ \/ (Len(include) > 0 /\ MatchesPattern(pathname, include))
           \/ /\ Len(include) = 0
              /\ ~ (Len(exclude) > 0 /\ MatchesPattern(pathname, exclude))

\* crawler.ts shouldCrawl(url, options)
CrawlerShouldCrawl(url, baseUrl, exclude, include) ==
    LET pathname == ParseUrl(url).path
    IN  /\ url.scheme \in {"http:", "https:"}
        /\ IsInternalUrl(url, baseUrl)
        /\ ~ HasResourceExtension(pathname)
        /\ ~ (Len(exclude) > 0 /\ MatchesPattern(pathname, exclude))
        /\ (Len(include) > 0 => MatchesPattern(pathname, include))

\* puppeteer-explorer.ts skipExtensions
SkipExtensions ==
    {"pdf", "jpg", "jpeg", "png", "gif", "svg", "css", "js", "ico", "woff", "woff2", "ttf"}

RECURSIVE AfterLastDot(_)
\* pathname.split('.').pop()
AfterLastDot(p) ==
    IF \E i \in 1..Len(p) : p[i] = "." 
    THEN AfterLastDot(Tail(p))
    ELSE p

\* puppeteer-explorer.ts shouldCrawl(url, baseUrl, exclude)
PuppeteerShouldCrawl(url, baseUrl, exclude) ==
    LET parsed == ParseUrl(url)
        ext == LowerSeq(AfterLastDot(parsed.path))
    IN  /\ OriginOf(parsed) = OriginOf(ParseUrl(baseUrl))
        /\ parsed.scheme \in {"http:", "https:"}
        /\ ~ (Len(ext) = 1 /\ ext[1] \in SkipExtensions)
        /\ ~ \E i \in 1..Len(exclude) : Includes(UrlTokens(url), exclude[i])

\* ------------------------------------------------------------ link extraction
\* the href attributes of the anchors of a rendered page: an absolute URL is
\* the URL itself, a relative reference carries the scheme "relative" and its
\* path, an href the URL parser rejects carries the scheme "invalid"
Hrefs ==
    { SiteUrl(<<"/">>),
      SiteUrl(<<"/", "a">>),
      SiteUrl(<<"/", "a", "/">>),
      MkUrl("https:", SiteHost, <<"/", "b">>, <<>>, <<"#", "f">>),
      SiteUrl(<<"/", "logout">>),
      SiteUrl(<<"/", "logo", ".", "PNG">>),
      MkUrl("https:", "other.test", <<"/", "a">>, <<>>, <<>>),
      MkUrl("invalid", "", <<>>, <<>>, <<>>) }

RECURSIVE DirOf(_)
\* the path up to and including its last "/"
DirOf(p) == IF p = <<>> \/ p[Len(p)] = "/" THEN p ELSE DirOf(SubSeq(p, 1, Len(p) - 1))

\* new URL(href, base).toString(): an absolute href as it is, a relative
\* reference on the origin of base, under the directory of base unless it
\* starts with "/"
ResolveUrl(href, base) ==
    IF href.scheme # "relative" THEN href
    ELSE LET b == ParseUrl(base)
         IN  [b EXCEPT !.path = IF href.path # <<>> /\ href.path[1] = "/" THEN href.path
                                 ELSE DirOf(b.path) \o href.path,
                       !.search = href.search,
                       !.hash = href.hash]

\* the sequences over S of length at most n
SeqsUpTo(S, n) == UNION {[1..k -> S] : k \in 0..n}

\* the anchor lists a page can render
LinkLists == SeqsUpTo(Hrefs, MaxLinks)

SeqRange(q) == {q[i] : i \in 1..Len(q)}

RECURSIVE CrawlerExtractWith(_, _, _)
\* crawler.ts extractLinks: the loop over the anchors of the page, for the
\* CrawlOptions {baseUrl, exclude, include}; the hrefs are resolved against
\* crawlOptions.resolveBase, which the callers set to options.baseUrl
CrawlerExtractWith(hrefs, crawlOptions, extracted) ==
    IF hrefs = <<>> THEN extracted
    ELSE LET absoluteUrl == ResolveUrl(hrefs[1], crawlOptions.resolveBase)
             normalizedUrl == CrawlerNormalizeUrl(absoluteUrl, FALSE)
             keep == /\ absoluteUrl.scheme # "invalid"
                     /\ normalizedUrl \notin SeqRange(extracted)
                     /\ CrawlerShouldCrawl(normalizedUrl, crawlOptions.baseUrl,
                                           crawlOptions.exclude, crawlOptions.include)
         IN  CrawlerExtractWith(Tail(hrefs), crawlOptions,
                                IF keep THEN Append(extracted, normalizedUrl) ELSE extracted)

\* crawler.ts extractLinks under the exclude and include lists of the run
CrawlerExtractFrom(hrefs, baseUrl, extracted) ==
    CrawlerExtractWith(hrefs, [baseUrl |-> baseUrl, resolveBase |-> baseUrl,
                               exclude |-> ExcludePatterns, include |-> IncludePatterns],
                       extracted)

\* crawler.ts extractLinks(page, options): the url of each ExtractedLink
CrawlerExtractLinks(hrefs, baseUrl) == CrawlerExtractFrom(hrefs, baseUrl, <<>>)

RECURSIVE PuppeteerValidLinksWith(_, _, _)
\* puppeteer-explorer.ts extractLinks: validLinks, for the exclude list given
PuppeteerValidLinksWith(hrefs, baseUrl, exclude) ==
    IF hrefs = <<>> THEN <<>>
    ELSE LET fullUrl == ResolveUrl(hrefs[1], baseUrl)
             rest == PuppeteerValidLinksWith(Tail(hrefs), baseUrl, exclude)
         IN  IF fullUrl.scheme # "invalid" /\ PuppeteerShouldCrawl(fullUrl, baseUrl, exclude)
             THEN <<PuppeteerNormalizeUrl(fullUrl)>> \o rest
             ELSE rest

\* puppeteer-explorer.ts extractLinks: validLinks under the exclude list of the run
PuppeteerValidLinks(hrefs, baseUrl) == PuppeteerValidLinksWith(hrefs, baseUrl, ExcludePatterns)

RECURSIVE Dedupe(_, _)
\* [...new Set(list)]: first occurrences, in order
Dedupe(list, acc) ==
    IF list = <<>> THEN acc
    ELSE Dedupe(Tail(list), IF list[1] \in SeqRange(acc) THEN acc ELSE Append(acc, list[1]))

\* puppeteer-explorer.ts extractLinks(page, baseUrl, exclude)
PuppeteerExtractLinks(hrefs, baseUrl) == Dedupe(PuppeteerValidLinks(hrefs, baseUrl), <<>>)

\* ------------------------------------------------------------------ state
VARIABLES
    impl,           \* "playwright": ExplorerEngine, "puppeteer": PuppeteerExplorerEngine
    site,           \* the site behind options.startUrl: "any", "budget", "login",
                    \* "docs", "docs-include" and "names"
    maxDepth,       \* options.maxDepth ?? config.explorer.maxDepth
    maxPages,       \* options.maxPages ?? config.explorer.maxPages
    credentials,    \* this.credentials: "none" or "set"
    status,         \* "idle", "running", "completed", "aborted"
    pc,             \* position inside explore() / captureUrl()
    queue,          \* this.queue
    visited,        \* this.visited
    results,        \* results of explore()
    authenticated,  \* this.authenticated
    loginPageUrls,  \* this.loginPageUrls
    cur,            \* the locals of the running captureUrl(url, depth)
    session,        \* the browser of the manager (this.browser set and open), the
                    \* context of explore(), browsers launched and closed so far
    pageOpen,       \* the page of captureUrl is open
    faults,         \* browser failures so far in this run
    calls,          \* what the run has done so far: performLogin calls and those
                    \* that returned true, username prompts, queue items skipped,
                    \* the discovered count last passed to onProgress
    report,         \* the ExplorerReport explore() resolved with
    routes,         \* config.routes.length of the CaptureEngine
    concurrency,    \* options.concurrency ?? config.concurrency
    auth,           \* config.auth is set
    capturePc,      \* position inside runCapture() / capture()
    chunkNo,        \* chunks of capture() started so far
    task,           \* position of each task of capture() inside its async function
    contexts,       \* tasks whose browser context is open
    pages,          \* tasks whose page is open
    captured,       \* results of capture(), as task indices
    errors,         \* errors of capture(), as task indices
    completed,      \* completed of capture()
    progress,       \* the completed values passed to onProgress, in call order
    captureReport,  \* the CaptureReport capture() resolved with
    setup,          \* setupAuth(): its context and page are open, writes of
                    \* this.authStatePath so far, the step that threw
    unit,           \* captureScreenshot(page, outputPath, options) of one task:
                    \* its options, its position, the actions attempted, its
                    \* warnings, the screenshot written
    cmp,            \* the compare command: the PNG files under baselines/ and
                    \* current/, config.threshold, the locals of runComparison,
                    \* the diff images written, the options and the exit code
    probe,          \* one call of the URL helpers: the arguments and the result
    chunker         \* the capture command and capture() up to its return: the
                    \* --concurrency option, config.concurrency, the locals
                    \* of chunkArray, the chunk being processed

vars == <<impl, site, maxDepth, maxPages, credentials, status, pc, queue, visited, results,
          authenticated, loginPageUrls, cur, session, pageOpen, faults,
          calls, report, routes, concurrency, auth, capturePc, chunkNo, task,
          contexts, pages, captured, errors, completed, progress, captureReport, setup,
          unit, cmp, probe, chunker>>

\* the state of the CaptureEngine, and the state only an explorer touches
capture == <<routes, concurrency, auth, capturePc, chunkNo, task, contexts, pages,
             captured, errors, completed, progress, captureReport, setup>>

explorer == <<impl, site, maxDepth, maxPages, credentials, status, pc, queue, visited,
              results, authenticated, loginPageUrls, cur, pageOpen, calls, report>>

options == <<impl, site, maxDepth, maxPages>>

NoPage == [url |-> StartUrl, depth |-> 0, shots |-> 0, error |-> FALSE,
           isLoginPage |-> FALSE, vp |-> 0, preDone |-> FALSE, navFailed |-> FALSE,
           queued |-> 0]

NoSession == [browser |-> FALSE, context |-> FALSE, launches |-> 0, closes |-> 0]

NoCalls == [logins |-> 0, loginsOk |-> 0, prompts |-> 0, skips |-> 0, discovered |-> 0]

NoReport == [produced |-> FALSE, discovered |-> 0, captured |-> 0, screenshots |-> 0,
             failed |-> 0, authenticated |-> FALSE]

\* normalizeUrl as each engine imports / defines it
NormalizeUrl(url) ==
    IF impl = "playwright" THEN CrawlerNormalizeUrl(url, FALSE) ELSE PuppeteerNormalizeUrl(url)

\* what extractLinks can return, as each engine calls it, over the anchor
\* lists a page can render
CrawlerPageLinks == {CrawlerExtractLinks(hrefs, StartUrl) : hrefs \in LinkLists}
PuppeteerPageLinks == {PuppeteerExtractLinks(hrefs, StartUrl) : hrefs \in LinkLists}
PageLinks == IF impl = "playwright" THEN CrawlerPageLinks ELSE PuppeteerPageLinks

\* the documentation sites: their runs exclude "/admin/*", or include only
\* "/docs/*"
DocsSites == {"docs", "docs-include"}

\* options.exclude ?? config.explorer.exclude, and config.explorer.include
RunExclude == IF site = "docs" THEN << <<"/", "admin", "/", "*">> >>
              ELSE IF site = "docs-include" THEN <<>>
              ELSE ExcludePatterns

RunInclude == IF site = "docs-include" THEN << <<"/", "docs", "/", "*">> >>
              ELSE IncludePatterns

\* the crawlOptions of ExplorerEngine.captureUrl
CrawlOptions == [baseUrl |-> StartUrl, resolveBase |-> StartUrl,
                 exclude |-> RunExclude, include |-> RunInclude]

\* extractLinks as each engine calls it, on the anchors of one page
ExtractLinks(hrefs) ==
    IF impl = "playwright" THEN CrawlerExtractWith(hrefs, CrawlOptions, <<>>)
    ELSE Dedupe(PuppeteerValidLinksWith(hrefs, StartUrl, RunExclude), <<>>)

RelHref(path, hash) == MkUrl("relative", "", path, <<>>, hash)

DocsGuide == SiteUrl(<<"/", "docs", "/", "guide">>)

\* the anchors of the pages of the documentation sites: the start page links
\* to the guide, to an admin page and to a data file; the guide has relative
\* links to its sibling "intro" and one href that does not parse
DocsAnchors(url) ==
    IF ParseUrl(url).path = <<"/">>
    THEN << DocsGuide, RelHref(<<"/", "admin", "/", "users">>, <<>>),
            SiteUrl(<<"/", "data", ".", "json">>) >>
    ELSE IF ParseUrl(url).path = DocsGuide.path
    THEN << RelHref(<<"intro">>, <<>>), MkUrl("invalid", "", <<>>, <<>>, <<>>),
            RelHref(<<"intro">>, <<"#", "top">>) >>
    ELSE <<>>

\* the anchors of the pages of the site "names": the start page links to
\* /a/b, to the same page with a query, and to /a-b
NamesAnchors(url) ==
    IF ParseUrl(url).path = <<"/">>
    THEN << SiteUrl(<<"/", "a", "/", "b">>),
            MkUrl("https:", SiteHost, <<"/", "a", "/", "b">>, <<"?", "q">>, <<>>),
            SiteUrl(<<"/", "a", "-", "b">>) >>
    ELSE <<>>

\* the anchors of the pages of the site "graph": the start page links to /a
\* and /b, /a to /b and /c, /b to /c and /a, /c back to the start page
GraphAnchors(url) ==
    LET path == ParseUrl(url).path
    IN  IF path = <<"/">> THEN << SiteUrl(<<"/", "a">>), SiteUrl(<<"/", "b">>) >>
        ELSE IF path = <<"/", "a">> THEN << SiteUrl(<<"/", "b">>), SiteUrl(<<"/", "c">>) >>
        ELSE IF path = <<"/", "b">> THEN << SiteUrl(<<"/", "c">>), SiteUrl(<<"/", "a">>) >>
        ELSE IF path = <<"/", "c">> THEN << SiteUrl(<<"/">>) >>
        ELSE <<>>

\* the start page, under either normalizeUrl
IsRoot(url) == ParseUrl(url).path = <<"/">>

\* the anchors of the start page of the site "budget"
BudgetAnchors ==
    << SiteUrl(<<"/", "a">>), SiteUrl(<<"/", "b">>), SiteUrl(<<"/", "c">>),
       SiteUrl(<<"/", "logout">>) >>

\* the link the start page of the site "login" shows only after the login
Dashboard == SiteUrl(<<"/", "dashboard">>)

\* the key an extracted link is queued under: normalizeUrl(link.url) in
\* ExplorerEngine, the link itself in PuppeteerExplorerEngine
LinkKey(link) == IF impl = "playwright" THEN CrawlerNormalizeUrl(link, FALSE) ELSE link

RECURSIVE PushLinks(_, _, _)
\* for (const link of links) if (!this.visited.has(key)) this.queue.push({url: key, depth: depth + 1})
PushLinks(q, links, depth) ==
    IF links = <<>> THEN q
    ELSE PushLinks(IF LinkKey(links[1]) \notin visited
                   THEN Append(q, [url |-> LinkKey(links[1]), depth |-> depth + 1])
                   ELSE q,
                   Tail(links), depth)

\* seeded fault: the page budget tested with <=
LoopContinues_OffByOne == Len(queue) > 0 /\ Len(results) <= maxPages

\* while (this.queue.length > 0 && results.length < maxPages)
LoopContinues == Len(queue) > 0 /\ Len(results) < maxPages

\* seeded fault: this.queue.pop(), a stack instead of a queue
QueueShift_Pop(q) == [item |-> q[Len(q)], rest |-> SubSeq(q, 1, Len(q) - 1)]

\* seeded fault: the head of the queue is read and left in the queue
QueueShift_Peek(q) == [item |-> Head(q), rest |-> q]

\* this.queue.shift(): the item taken and the queue left
QueueShift(q) == [item |-> Head(q), rest |-> Tail(q)]

\* seeded fault: the visited test is missing
AlreadyVisited_Never(normalized) == FALSE

\* if (this.visited.has(normalized)) continue
AlreadyVisited(normalized) == normalized \in visited

\* if (depth < maxDepth)
WithinDepth(depth) == depth < maxDepth

\* if (isLoginPage && !this.authenticated)
LoginWanted == cur.isLoginPage /\ ~authenticated

\* what extractLinks can return on the page of captureUrl, before or after
\* a login: any page of the site "any" renders any anchor list; the start
\* pages of the sites "budget" and "login" render the anchors given above
RenderedLinks(afterLogin) ==
    IF site \in DocsSites THEN {ExtractLinks(DocsAnchors(cur.url))}
    ELSE IF site = "names" THEN {ExtractLinks(NamesAnchors(cur.url))}
    ELSE IF site = "graph" THEN {ExtractLinks(GraphAnchors(cur.url))}
    ELSE IF site = "budget" /\ IsRoot(cur.url) THEN {ExtractLinks(BudgetAnchors)}
    ELSE IF site = "login" /\ IsRoot(cur.url) /\ afterLogin
         THEN {ExtractLinks(Append(hrefs, Dashboard)) : hrefs \in LinkLists}
         ELSE PageLinks

\* what detectLoginPage can return on the page of captureUrl: the start page
\* of the site "login" shows a login form
LoginDetections ==
    IF site = "login" /\ IsRoot(cur.url) THEN {TRUE}
    ELSE IF site \in DocsSites \cup {"names", "graph"} THEN {FALSE}
    ELSE BOOLEAN

CanFail == faults < MaxFaults

\* the engine as constructed, before explore()
NoUnit == [waitForSelector |-> FALSE, actions |-> 0, mask |-> FALSE, pc |-> "idle",
           attempted |-> <<>>, failed |-> {}, timedOut |-> FALSE, warnings |-> <<>>,
           shot |-> FALSE]

\* a file of a tree: none at that path, one that PNG.sync.read rejects, or a
\* PNG of width x height pixels
NoFile == [kind |-> "none", width |-> 0, height |-> 0, data |-> <<>>]

Corrupt == [kind |-> "corrupt", width |-> 0, height |-> 0, data |-> <<>>]

Png(w, h, d) == [kind |-> "png", width |-> w, height |-> h, data |-> d]

Paths == 1..MaxFiles

NoComparisonReport == [produced |-> FALSE, total |-> 0, passed |-> 0, failed |-> 0,
                       new |-> 0, missing |-> 0, errors |-> 0]

NoCompareOptions == [json |-> FALSE, updateMissing |-> FALSE, report |-> TRUE,
                     junit |-> FALSE]

\* the compare command before it runs, with empty trees, and the approve
\* command not called
NoCmp == [pc |-> "idle", baseline |-> [p \in Paths |-> NoFile],
          current |-> [p \in Paths |-> NoFile], failureThreshold |-> 0, pixel |-> 0,
          allFiles |-> <<>>, total |-> 0, results |-> <<>>, completed |-> 0,
          diffs |-> {}, report |-> NoComparisonReport,
          options |-> NoCompareOptions, written |-> {}, exit |-> -1,
          filter |-> <<>>, currentFiles |-> <<>>, next |-> 0, approved |-> <<>>,
          skipped |-> <<>>, approve |-> "none", clean |-> FALSE]

\* a JavaScript number: an integer or NaN
Num(n) == [nan |-> FALSE, n |-> n]

NaN == [nan |-> TRUE, n |-> 0]

\* the capture command not called
NoChunker == [pc |-> "idle", option |-> [kind |-> "absent", n |-> 0],
              concurrency |-> Num(1), length |-> 0, i |-> Num(0), chunks |-> <<>>,
              turns |-> 0, done |-> 0]

\* no URL helper called
NoProbe == [pc |-> "idle", url |-> StartUrl, removeQuery |-> FALSE, exclude |-> <<>>,
            include |-> <<>>, normalized |-> StartUrl, crawl |-> FALSE]

NoSetup == [context |-> FALSE, page |-> FALSE, writes |-> 0, failed |-> "none"]

NoCaptureReport == [produced |-> FALSE, total |-> 0, successful |-> 0, failed |-> 0]

\* the engine before capture() is called, and while an explorer runs
CaptureIdle ==
    /\ routes = 0
    /\ concurrency = 1
    /\ auth = FALSE
    /\ capturePc = "idle"
    /\ chunkNo = 0
    /\ task = <<>>
    /\ contexts = {}
    /\ pages = {}
    /\ captured = <<>>
    /\ errors = <<>>
    /\ completed = 0
    /\ progress = <<>>
    /\ captureReport = NoCaptureReport
    /\ setup = NoSetup
    /\ unit = NoUnit

Constructed ==
    /\ credentials \in (IF impl = "puppeteer" THEN {"none", "set"} ELSE {"none"})
    /\ status = "idle"
    /\ pc = "start"
    /\ queue = <<>>
    /\ visited = {}
    /\ results = <<>>
    /\ authenticated = FALSE
    /\ loginPageUrls = {}
    /\ cur = NoPage
    /\ session = NoSession
    /\ pageOpen = FALSE
    /\ faults = 0
    /\ calls = NoCalls
    /\ report = NoReport

Init ==
    /\ impl \in {"playwright", "puppeteer"}
    /\ site = "any"
    /\ maxDepth \in 0..MaxDepthB
    /\ maxPages \in 1..MaxPagesB
    /\ Constructed
    /\ CaptureIdle
    /\ cmp = NoCmp
    /\ probe = NoProbe
    /\ chunker = NoChunker

\* ------------------------------------------------------------ explore()
\* BrowserManager.launch / PuppeteerBrowserManager.launch: the browser at
\* hand, or a new one
ManagerLaunch(s) ==
    IF s.browser THEN s ELSE [s EXCEPT !.browser = TRUE, !.launches = @ + 1]

\* seeded fault: close() leaves the browser running
ManagerClose_Skipped(s) == s

\* BrowserManager.close / PuppeteerBrowserManager.close: browser.close(),
\* which closes its contexts and pages, and this.browser = null
ManagerClose(s) ==
    IF s.browser THEN [s EXCEPT !.browser = FALSE, !.context = FALSE, !.closes = @ + 1]
    ELSE s

\* the finally block of explore(): context.close() in ExplorerEngine,
\* browserManager.close() in PuppeteerExplorerEngine
ExploreFinally(s) ==
    IF impl = "playwright" THEN [s EXCEPT !.context = FALSE] ELSE ManagerClose(s)

\* explore(): mkdir, push the normalized start URL, launch the browser
\* (createContext / browserManager.launch)
Launch ==
    /\ pc = "start"
    /\ queue' = Append(queue, [url |-> NormalizeUrl(StartUrl), depth |-> 0])
    /\ session' = [ManagerLaunch(session) EXCEPT !.context = (impl = "playwright")]
    /\ status' = "running"
    /\ pc' = "loop"
    /\ UNCHANGED <<options, capture, unit, cmp, probe, chunker, credentials, visited, results, authenticated, loginPageUrls,
                   cur, pageOpen, faults, calls, report>>

\* the launch throws: explore() rejects before its try block
LaunchFail ==
    /\ pc = "start"
    /\ CanFail
    /\ faults' = faults + 1
    /\ queue' = Append(queue, [url |-> NormalizeUrl(StartUrl), depth |-> 0])
    /\ status' = "aborted"
    /\ pc' = "finally"
    /\ UNCHANGED <<options, capture, unit, cmp, probe, chunker, credentials, visited, results, authenticated, loginPageUrls,
                   cur, session, pageOpen, calls, report>>

\* ExplorerEngine: the browser is launched and browser.newContext throws:
\* explore() rejects before its try block
ContextFail ==
    /\ pc = "start"
    /\ impl = "playwright"
    /\ CanFail
    /\ faults' = faults + 1
    /\ queue' = Append(queue, [url |-> NormalizeUrl(StartUrl), depth |-> 0])
    /\ session' = ManagerLaunch(session)
    /\ status' = "aborted"
    /\ pc' = "finally"
    /\ UNCHANGED <<options, capture, unit, cmp, probe, chunker, credentials, visited, results, authenticated, loginPageUrls,
                   cur, pageOpen, calls, report>>

\* runExplorer / runPuppeteerExplorer: finally { await engine.close() }
EngineClose ==
    /\ pc = "finally"
    /\ session' = ManagerClose(session)
    /\ pc' = "done"
    /\ UNCHANGED <<options, capture, unit, cmp, probe, chunker, credentials, status, queue, visited, results, authenticated,
                   loginPageUrls, cur, pageOpen, faults, calls, report>>

\* one turn of the while loop that finds the URL not yet visited
Dequeue ==
    /\ pc = "loop"
    /\ LoopContinues
    /\ LET item == QueueShift(queue).item
           normalized == NormalizeUrl(item.url)
       IN  /\ ~AlreadyVisited(normalized)
           /\ visited' = visited \cup {normalized}
           /\ cur' = [NoPage EXCEPT !.url = item.url, !.depth = item.depth,
                                     !.queued = Len(queue) - 1]
    /\ queue' = QueueShift(queue).rest
    /\ pc' = "create"
    /\ UNCHANGED <<options, capture, unit, cmp, probe, chunker, credentials, status, results, authenticated, loginPageUrls,
                   session, pageOpen, faults, calls, report>>

\* one turn of the while loop that finds the URL visited: continue
DequeueSkip ==
    /\ pc = "loop"
    /\ LoopContinues
    /\ AlreadyVisited(NormalizeUrl(QueueShift(queue).item.url))
    /\ queue' = QueueShift(queue).rest
    /\ calls' = [calls EXCEPT !.skips = IF @ < MaxSkips THEN @ + 1 ELSE @]
    /\ UNCHANGED <<options, capture, unit, cmp, probe, chunker, credentials, status, pc, visited, results, authenticated,
                   loginPageUrls, cur, session, pageOpen, faults, report>>

\* discovered: this.visited.size, in the report
ReportDiscovered == Cardinality(visited)

RECURSIVE SumShots(_)
\* results.reduce((sum, r) => sum + r.screenshots.length, 0)
SumShots(rs) == IF rs = <<>> THEN 0 ELSE rs[1].shots + SumShots(Tail(rs))

\* the while condition is false; finally: close the context / browser;
\* build the report and resolve
Finish ==
    /\ pc = "loop"
    /\ ~LoopContinues
    /\ session' = ExploreFinally(session)
    /\ report' = [produced |-> TRUE,
                  discovered |-> ReportDiscovered,
                  captured |-> Cardinality({i \in 1..Len(results) : results[i].shots > 0}),
                  screenshots |-> SumShots(results),
                  failed |-> Cardinality({i \in 1..Len(results) : results[i].error}),
                  authenticated |-> authenticated]
    /\ status' = "completed"
    /\ pc' = "finally"
    /\ UNCHANGED <<options, capture, unit, cmp, probe, chunker, credentials, queue, visited, results, authenticated,
                   loginPageUrls, cur, pageOpen, faults, calls>>

\* an exception left the loop: finally closes the context / browser, and
\* with it the page left open, and explore() rejects
Abort ==
    /\ pc = "abort"
    /\ session' = ExploreFinally(session)
    /\ pageOpen' = FALSE
    /\ status' = "aborted"
    /\ pc' = "finally"
    /\ UNCHANGED <<options, capture, unit, cmp, probe, chunker, credentials, queue, visited, results, authenticated,
                   loginPageUrls, cur, faults, calls, report>>

\* ------------------------------------------------------------ captureUrl()
\* seeded fault: the navigation error is swallowed and the capture goes on
AfterGotoFailure_GoesOn == IF impl = "puppeteer" THEN "detect" ELSE "shots"

\* where captureUrl goes when page.goto throws: the catch block, then finally
AfterGotoFailure == "close"

\* seeded fault: the authentication comes before the link extraction
AfterViewports_AuthFirst == IF impl = "puppeteer" THEN "auth" ELSE "extract"

\* where captureUrl goes after the viewport loop
AfterViewports == "extract"

\* seeded fault: this.authenticated = true outside the test of the result
AuthAfterLogin_Always(success) == TRUE

\* this.authenticated after performLogin returned success
AuthAfterLogin(success) == IF success THEN TRUE ELSE authenticated

\* seeded fault: the links are extracted again whatever performLogin returned
AfterLogin_AlwaysReextract(success) == "reextract"

\* seeded fault: the links are not extracted again after a successful login
AfterLogin_NoReextract(success) == "close"

\* where captureUrl goes after performLogin: the second extraction under
\* if (success), else the end of the try block
AfterLogin(success) == IF success THEN "reextract" ELSE "close"

\* createPage succeeds
CreatePage ==
    /\ pc = "create"
    /\ pageOpen' = TRUE
    /\ pc' = "goto"
    /\ UNCHANGED <<options, capture, unit, cmp, probe, chunker, credentials, status, queue, visited, results, authenticated,
                   loginPageUrls, cur, session, faults, calls, report>>

\* createPage throws, in newPage or, the page being open, in a later call
\* (setViewport, addStyleTag): it is called outside the try block of
\* captureUrl, so the exception leaves captureUrl and the while loop
CreatePageFail ==
    /\ pc = "create"
    /\ CanFail
    /\ faults' = faults + 1
    /\ pageOpen' \in BOOLEAN
    /\ pc' = "abort"
    /\ UNCHANGED <<options, capture, unit, cmp, probe, chunker, credentials, status, queue, visited, results, authenticated,
                   loginPageUrls, cur, session, calls, report>>

\* page.goto resolves
Goto ==
    /\ pc = "goto"
    /\ pc' = IF impl = "puppeteer" THEN "detect" ELSE "shots"
    /\ UNCHANGED <<options, capture, unit, cmp, probe, chunker, credentials, status, queue, visited, results, authenticated,
                   loginPageUrls, cur, session, pageOpen, faults, calls, report>>

\* page.goto throws (navigation error or timeout)
GotoFail ==
    /\ pc = "goto"
    /\ CanFail
    /\ faults' = faults + 1
    /\ cur' = [cur EXCEPT !.error = TRUE, !.navFailed = TRUE]
    /\ pc' = AfterGotoFailure
    /\ UNCHANGED <<options, capture, unit, cmp, probe, chunker, credentials, status, queue, visited, results, authenticated,
                   loginPageUrls, session, pageOpen, calls, report>>

\* PuppeteerExplorerEngine: detectLoginPage(page) on the loaded page
DetectLogin ==
    /\ pc = "detect"
    /\ \E isLogin \in LoginDetections :
        /\ cur' = [cur EXCEPT !.isLoginPage = isLogin]
        /\ loginPageUrls' = IF isLogin THEN loginPageUrls \cup {cur.url} ELSE loginPageUrls
    /\ pc' = "shots"
    /\ UNCHANGED <<options, capture, unit, cmp, probe, chunker, credentials, status, queue, visited, results, authenticated,
                   session, pageOpen, faults, calls, report>>

\* detectLoginPage throws (page.evaluate fails)
DetectFail ==
    /\ pc = "detect"
    /\ CanFail
    /\ faults' = faults + 1
    /\ cur' = [cur EXCEPT !.error = TRUE]
    /\ pc' = "close"
    /\ UNCHANGED <<options, capture, unit, cmp, probe, chunker, credentials, status, queue, visited, results, authenticated,
                   loginPageUrls, session, pageOpen, calls, report>>

\* one turn of the viewport loop: set the viewport, take the screenshot
Screenshot ==
    /\ pc = "shots"
    /\ cur.vp < NumViewports
    /\ cur' = [cur EXCEPT !.shots = @ + 1, !.vp = @ + 1]
    /\ pc' = IF cur.vp + 1 = NumViewports THEN AfterViewports ELSE "shots"
    /\ UNCHANGED <<options, capture, unit, cmp, probe, chunker, credentials, status, queue, visited, results, authenticated,
                   loginPageUrls, session, pageOpen, faults, calls, report>>

\* the screenshot throws: the inner catch records the message and the loop goes on
ScreenshotFail ==
    /\ pc = "shots"
    /\ cur.vp < NumViewports
    /\ CanFail
    /\ faults' = faults + 1
    /\ cur' = [cur EXCEPT !.error = TRUE, !.vp = @ + 1]
    /\ pc' = IF cur.vp + 1 = NumViewports THEN AfterViewports ELSE "shots"
    /\ UNCHANGED <<options, capture, unit, cmp, probe, chunker, credentials, status, queue, visited, results, authenticated,
                   loginPageUrls, session, pageOpen, calls, report>>

\* setViewportSize / setViewport throws: outside the inner try, so the outer catch
SetViewportFail ==
    /\ pc = "shots"
    /\ cur.vp < NumViewports
    /\ CanFail
    /\ faults' = faults + 1
    /\ cur' = [cur EXCEPT !.error = TRUE]
    /\ pc' = "close"
    /\ UNCHANGED <<options, capture, unit, cmp, probe, chunker, credentials, status, queue, visited, results, authenticated,
                   loginPageUrls, session, pageOpen, calls, report>>

\* extract the links of the page and queue the new ones.  ExplorerEngine
\* extracts always and queues under the depth test; PuppeteerExplorerEngine
\* extracts under the depth test and goes on to the authentication
ExtractAndEnqueue ==
    /\ pc = "extract"
    /\ \E links \in (IF WithinDepth(cur.depth) THEN RenderedLinks(FALSE) ELSE {<<>>}) :
        queue' = IF WithinDepth(cur.depth) THEN PushLinks(queue, links, cur.depth) ELSE queue
    /\ cur' = [cur EXCEPT !.preDone = TRUE]
    /\ pc' = IF impl = "puppeteer" THEN "auth" ELSE "close"
    /\ UNCHANGED <<options, capture, unit, cmp, probe, chunker, credentials, status, visited, results, authenticated,
                   loginPageUrls, session, pageOpen, faults, calls, report>>

\* extractLinks throws (page.evaluate fails)
ExtractFail ==
    /\ pc = "extract"
    /\ impl = "puppeteer" => WithinDepth(cur.depth)
    /\ CanFail
    /\ faults' = faults + 1
    /\ cur' = [cur EXCEPT !.error = TRUE]
    /\ pc' = "close"
    /\ UNCHANGED <<options, capture, unit, cmp, probe, chunker, credentials, status, queue, visited, results, authenticated,
                   loginPageUrls, session, pageOpen, calls, report>>

\* PuppeteerExplorerEngine: not a login page, or already authenticated
NoLogin ==
    /\ pc = "auth"
    /\ ~LoginWanted
    /\ pc' = "close"
    /\ UNCHANGED <<options, capture, unit, cmp, probe, chunker, credentials, status, queue, visited, results, authenticated,
                   loginPageUrls, cur, session, pageOpen, faults, calls, report>>

\* a login page, credentials at hand: performLogin, which returns true or
\* false and never throws
Login ==
    /\ pc = "auth"
    /\ LoginWanted
    /\ credentials = "set"
    /\ \E success \in BOOLEAN :
        /\ calls' = [calls EXCEPT !.logins = @ + 1, !.loginsOk = IF success THEN @ + 1 ELSE @]
        /\ authenticated' = AuthAfterLogin(success)
        /\ pc' = AfterLogin(success)
    /\ UNCHANGED <<options, capture, unit, cmp, probe, chunker, credentials, status, queue, visited, results, loginPageUrls,
                   cur, session, pageOpen, faults, report>>

\* a login page, no credentials: the user is asked and gives no username,
\* or a username and no password: no login attempt
PromptSkip ==
    /\ pc = "auth"
    /\ LoginWanted
    /\ credentials = "none"
    /\ calls' = [calls EXCEPT !.prompts = @ + 1]
    /\ pc' = "close"
    /\ UNCHANGED <<options, capture, unit, cmp, probe, chunker, credentials, status, queue, visited, results, authenticated,
                   loginPageUrls, cur, session, pageOpen, faults, report>>

\* a login page, no credentials: the user gives both, they are kept and
\* performLogin is called
PromptLogin ==
    /\ pc = "auth"
    /\ LoginWanted
    /\ credentials = "none"
    /\ credentials' = "set"
    /\ \E success \in BOOLEAN :
        /\ calls' = [calls EXCEPT !.prompts = @ + 1, !.logins = @ + 1,
                                  !.loginsOk = IF success THEN @ + 1 ELSE @]
        /\ authenticated' = AuthAfterLogin(success)
        /\ pc' = AfterLogin(success)
    /\ UNCHANGED <<options, capture, unit, cmp, probe, chunker, status, queue, visited, results, loginPageUrls, cur,
                   session, pageOpen, faults, report>>

\* after a successful login: extract again and queue the new links (no depth test)
ReExtract ==
    /\ pc = "reextract"
    /\ \E links \in RenderedLinks(TRUE) : queue' = PushLinks(queue, links, cur.depth)
    /\ pc' = "close"
    /\ UNCHANGED <<options, capture, unit, cmp, probe, chunker, credentials, status, visited, results, authenticated,
                   loginPageUrls, cur, session, pageOpen, faults, calls, report>>

\* the extraction after the login throws
ReExtractFail ==
    /\ pc = "reextract"
    /\ CanFail
    /\ faults' = faults + 1
    /\ cur' = [cur EXCEPT !.error = TRUE]
    /\ pc' = "close"
    /\ UNCHANGED <<options, capture, unit, cmp, probe, chunker, credentials, status, queue, visited, results, authenticated,
                   loginPageUrls, session, pageOpen, calls, report>>

\* onProgress?.(this.visited.size + this.queue.length, ...)
ProgressDiscovered == Cardinality(visited) + Len(queue)

\* seeded fault: captureUrl returns without closing its page
PageAfterCapture_LeftOpen == TRUE

\* the page handle when captureUrl returns: finally { await page.close() }
PageAfterCapture == FALSE

\* finally: page.close(); captureUrl returns; explore() pushes the result
\* and calls onProgress.  linksExtracted is bookkeeping of the model: whether
\* extractLinks returned for the page
ClosePage ==
    /\ pc = "close"
    /\ pageOpen' = PageAfterCapture
    /\ results' = Append(results, [url |-> cur.url, depth |-> cur.depth, shots |-> cur.shots,
                                   error |-> cur.error, isLoginPage |-> cur.isLoginPage,
                                   navFailed |-> cur.navFailed,
                                   linksExtracted |-> cur.preDone])
    /\ cur' = NoPage
    /\ calls' = [calls EXCEPT !.discovered = ProgressDiscovered]
    /\ pc' = "loop"
    /\ UNCHANGED <<options, capture, unit, cmp, probe, chunker, credentials, status, queue, visited, authenticated,
                   loginPageUrls, session, faults, report>>

Next ==
    \/ Launch \/ LaunchFail \/ ContextFail
    \/ Dequeue \/ DequeueSkip
    \/ CreatePage \/ CreatePageFail
    \/ Goto \/ GotoFail
    \/ DetectLogin \/ DetectFail
    \/ Screenshot \/ ScreenshotFail \/ SetViewportFail
    \/ ExtractAndEnqueue \/ ExtractFail
    \/ NoLogin \/ Login \/ PromptSkip \/ PromptLogin
    \/ ReExtract \/ ReExtractFail
    \/ ClosePage
    \/ Finish \/ Abort
    \/ EngineClose

Spec == Init /\ [][Next]_vars

\* explore() under a scheduler that runs every continuation whose awaited
\* browser operation has returned or failed
LiveSpec == Init /\ [][Next]_vars /\ WF_vars(Next)

\* the end-to-end sites: "budget" crawled by either engine with
\* maxDepth = 1 and maxPages = 3, "login" crawled by PuppeteerExplorerEngine
\* with credentials, maxDepth >= 1 and maxPages >= 2, the documentation sites
\* and the site "names" crawled by either engine with maxDepth >= 1 and
\* maxPages >= 2, the site "graph" crawled by either engine with any
\* maxDepth and a budget of up to all of its four pages
ScenarioInit ==
    /\ site \in {"budget", "login", "names", "graph"} \cup DocsSites
    /\ impl \in (IF site = "login" THEN {"puppeteer"} ELSE {"playwright", "puppeteer"})
    /\ maxDepth \in (IF site = "budget" THEN {1}
                     ELSE IF site = "graph" THEN 0..MaxDepthB ELSE 1..MaxDepthB)
    /\ maxPages \in (IF site = "budget" THEN {3}
                     ELSE IF site = "graph" THEN 1..(MaxPagesB + 1) ELSE 2..MaxPagesB)
    /\ Constructed
    /\ site = "login" => credentials = "set"
    /\ CaptureIdle
    /\ cmp = NoCmp
    /\ probe = NoProbe
    /\ chunker = NoChunker

ScenarioSpec == ScenarioInit /\ [][Next]_vars

\* ------------------------------------------------------------ CaptureEngine
\* createCaptureTasks: one task per route and viewport, routes outermost
RECURSIVE TasksFrom(_, _)
TasksFrom(r, v) ==
    IF r > routes THEN <<>>
    ELSE IF v > NumViewports THEN TasksFrom(r + 1, 1)
    ELSE <<[route |-> r, viewport |-> v]>> \o TasksFrom(r, v + 1)

CreateCaptureTasks == TasksFrom(1, 1)

Total == Len(CreateCaptureTasks)

TaskIds == 1..Total

\* Array.prototype.slice(from, to) on a sequence, from and to zero-based
Slice(array, from, to) ==
    SubSeq(array, from + 1, IF to < Len(array) THEN to ELSE Len(array))

\* chunkArray: for (let i = 0; i < array.length; i += size) slice(i, i + size)
RECURSIVE ChunkFrom(_, _, _)
ChunkFrom(array, size, i) ==
    IF i >= Len(array) THEN <<>>
    ELSE <<Slice(array, i, i + size)>> \o ChunkFrom(array, size, i + size)

ChunkArray(array, size) == ChunkFrom(array, size, 0)

Chunks == ChunkArray(CreateCaptureTasks, concurrency)

\* the position in tasks of a task of a chunk
TaskIndex(t) == (t.route - 1) * NumViewports + t.viewport

ChunkIds(k) == {TaskIndex(Chunks[k][n]) : n \in 1..Len(Chunks[k])}

\* a task between the call of its async function and the settling of its
\* promise
Running(i) == task[i] \notin {"pending", "fulfilled", "rejected"}

\* runCapture(config, options) called: new CaptureEngine, then capture()
CaptureInit ==
    /\ impl = "playwright"
    /\ site = "any"
    /\ maxDepth = 0
    /\ maxPages = 1
    /\ Constructed
    /\ routes \in 1..MaxRoutes
    /\ concurrency \in 1..MaxConcurrency
    /\ auth \in BOOLEAN
    /\ capturePc = "start"
    /\ chunkNo = 0
    /\ task = [i \in TaskIds |-> "pending"]
    /\ contexts = {}
    /\ pages = {}
    /\ captured = <<>>
    /\ errors = <<>>
    /\ completed = 0
    /\ progress = <<>>
    /\ captureReport = NoCaptureReport
    /\ setup = NoSetup
    /\ unit = NoUnit
    /\ cmp = NoCmp
    /\ probe = NoProbe
    /\ chunker = NoChunker

\* the first await of a task: createContext calls launch(), which returns the
\* browser at once when this.browser is set and launches one otherwise
FirstAwait == IF session.browser THEN "newContext" ELSE "launch"

\* capture() up to the loop without config.auth: mkdir, and setupAuth returns
\* at once
CaptureSetup ==
    /\ capturePc = "start"
    /\ ~auth
    /\ capturePc' = "loop"
    /\ UNCHANGED <<explorer, unit, cmp, probe, chunker, setup, session, faults, routes, concurrency, auth, chunkNo, task,
                   contexts, pages, captured, errors, completed, progress, captureReport>>

\* setupAuth: createContext launches the browser and opens the context
AuthContext ==
    /\ capturePc = "start"
    /\ auth
    /\ session' = ManagerLaunch(session)
    /\ setup' = [setup EXCEPT !.context = TRUE]
    /\ capturePc' = "authPage"
    /\ UNCHANGED <<explorer, unit, cmp, probe, chunker, faults, routes, concurrency, auth, chunkNo, task, contexts,
                   pages, captured, errors, completed, progress, captureReport>>

\* createContext throws, in launch() or in newContext: capture() rejects
AuthContextFail ==
    /\ capturePc = "start"
    /\ auth
    /\ CanFail
    /\ faults' = faults + 1
    /\ \E launched \in BOOLEAN :
        session' = IF launched THEN ManagerLaunch(session) ELSE session
    /\ setup' = [setup EXCEPT !.failed = "context"]
    /\ capturePc' = "rejected"
    /\ UNCHANGED <<explorer, unit, cmp, probe, chunker, routes, concurrency, auth, chunkNo, task, contexts,
                   pages, captured, errors, completed, progress, captureReport>>

\* setupAuth: createPage, before the try
AuthPage ==
    /\ capturePc = "authPage"
    /\ setup' = [setup EXCEPT !.page = TRUE]
    /\ capturePc' = "authenticate"
    /\ UNCHANGED <<explorer, unit, cmp, probe, chunker, session, faults, routes, concurrency, auth, chunkNo, task,
                   contexts, pages, captured, errors, completed, progress, captureReport>>

\* createPage throws (newPage, or addStyleTag on the new page) before the try
\* of setupAuth: capture() rejects with the context left open
AuthPageFail ==
    /\ capturePc = "authPage"
    /\ CanFail
    /\ faults' = faults + 1
    /\ \E opened \in BOOLEAN : setup' = [setup EXCEPT !.page = opened, !.failed = "page"]
    /\ capturePc' = "rejected"
    /\ UNCHANGED <<explorer, unit, cmp, probe, chunker, session, routes, concurrency, auth, chunkNo, task,
                   contexts, pages, captured, errors, completed, progress, captureReport>>

\* performAuthentication resolved
Authenticate ==
    /\ capturePc = "authenticate"
    /\ capturePc' = "saveState"
    /\ UNCHANGED <<explorer, unit, cmp, probe, chunker, setup, session, faults, routes, concurrency, auth, chunkNo, task,
                   contexts, pages, captured, errors, completed, progress, captureReport>>

\* performAuthentication throws: on to the finally of setupAuth
AuthenticateFail ==
    /\ capturePc = "authenticate"
    /\ CanFail
    /\ faults' = faults + 1
    /\ setup' = [setup EXCEPT !.failed = "auth"]
    /\ capturePc' = "authFinally"
    /\ UNCHANGED <<explorer, unit, cmp, probe, chunker, session, routes, concurrency, auth, chunkNo, task,
                   contexts, pages, captured, errors, completed, progress, captureReport>>

\* this.authStatePath = ...; mkdir; saveAuthState
SaveAuthState ==
    /\ capturePc = "saveState"
    /\ setup' = [setup EXCEPT !.writes = @ + 1]
    /\ capturePc' = "authFinally"
    /\ UNCHANGED <<explorer, unit, cmp, probe, chunker, session, faults, routes, concurrency, auth, chunkNo, task,
                   contexts, pages, captured, errors, completed, progress, captureReport>>

\* mkdir or saveAuthState throws, after this.authStatePath was assigned
SaveAuthStateFail ==
    /\ capturePc = "saveState"
    /\ CanFail
    /\ faults' = faults + 1
    /\ setup' = [setup EXCEPT !.writes = @ + 1, !.failed = "save"]
    /\ capturePc' = "authFinally"
    /\ UNCHANGED <<explorer, unit, cmp, probe, chunker, session, routes, concurrency, auth, chunkNo, task,
                   contexts, pages, captured, errors, completed, progress, captureReport>>

\* seeded fault: capture() goes on to its tasks after a failed setupAuth
AfterSetupAuth_GoesOn(failed) == "loop"

\* await this.setupAuth() in capture(): the loop follows, or the rejection
AfterSetupAuth(failed) == IF failed = "none" THEN "loop" ELSE "rejected"

\* finally of setupAuth: context.close(), which closes its page
AuthFinally ==
    /\ capturePc = "authFinally"
    /\ setup' = [setup EXCEPT !.context = FALSE, !.page = FALSE]
    /\ capturePc' = AfterSetupAuth(setup.failed)
    /\ UNCHANGED <<explorer, unit, cmp, probe, chunker, session, faults, routes, concurrency, auth, chunkNo, task,
                   contexts, pages, captured, errors, completed, progress, captureReport>>

\* for (const chunk of chunks): chunk.map calls the async function of every
\* task of the chunk, each running up to its first await
StartBatch ==
    /\ capturePc = "loop"
    /\ chunkNo < Len(Chunks)
    /\ chunkNo' = chunkNo + 1
    /\ task' = [i \in TaskIds |-> IF i \in ChunkIds(chunkNo + 1) THEN FirstAwait ELSE task[i]]
    /\ capturePc' = "await"
    /\ UNCHANGED <<explorer, unit, cmp, probe, chunker, setup, session, faults, routes, concurrency, auth, contexts,
                   pages, captured, errors, completed, progress, captureReport>>

\* seeded fault: the await ends with the first task of the chunk to finish
BatchSettled_Any(k) == \E i \in ChunkIds(k) : task[i] = "fulfilled"

\* Promise.all(chunkPromises) fulfils when every promise of the chunk has
BatchSettled(k) == \A i \in ChunkIds(k) : task[i] = "fulfilled"

AwaitBatch ==
    /\ capturePc = "await"
    /\ BatchSettled(chunkNo)
    /\ capturePc' = "loop"
    /\ UNCHANGED <<explorer, unit, cmp, probe, chunker, setup, session, faults, routes, concurrency, auth, chunkNo, task,
                   contexts, pages, captured, errors, completed, progress, captureReport>>

\* Promise.all rejects as soon as one promise of the chunk rejects: capture()
\* rejects with it
AwaitReject ==
    /\ capturePc = "await"
    /\ \E i \in ChunkIds(chunkNo) : task[i] = "rejected"
    /\ capturePc' = "rejected"
    /\ UNCHANGED <<explorer, unit, cmp, probe, chunker, setup, session, faults, routes, concurrency, auth, chunkNo, task,
                   contexts, pages, captured, errors, completed, progress, captureReport>>

\* after the last chunk: capture() resolves with the CaptureReport
CaptureReturn ==
    /\ capturePc = "loop"
    /\ chunkNo = Len(Chunks)
    /\ captureReport' = [produced |-> TRUE, total |-> Total,
                         successful |-> Len(captured), failed |-> Len(errors)]
    /\ capturePc' = "returned"
    /\ UNCHANGED <<explorer, unit, cmp, probe, chunker, setup, session, faults, routes, concurrency, auth, chunkNo, task,
                   contexts, pages, captured, errors, completed, progress>>

\* runCapture, finally: engine.close() closes the browser and with it every
\* context and page still open
CaptureClose ==
    /\ capturePc \in {"returned", "rejected"}
    /\ session' = ManagerClose(session)
    /\ contexts' = IF session.browser THEN {} ELSE contexts
    /\ pages' = IF session.browser THEN {} ELSE pages
    /\ setup' = IF session.browser THEN [setup EXCEPT !.context = FALSE, !.page = FALSE]
                ELSE setup
    /\ capturePc' = "done"
    /\ UNCHANGED <<explorer, unit, cmp, probe, chunker, faults, routes, concurrency, auth, chunkNo, task,
                   captured, errors, completed, progress, captureReport>>

\* a browser call of a task can succeed while the browser is open, and can
\* fail by a fault or because the browser has been closed under the task
CallWorks == session.browser

CallFails == CanFail \/ ~session.browser

Fault == IF session.browser THEN faults + 1 ELSE faults

\* launch() of createContext: browserType.launch resolved, this.browser set
TaskLaunch(i) ==
    /\ task[i] = "launch"
    /\ session' = [session EXCEPT !.browser = TRUE, !.launches = @ + 1]
    /\ task' = [task EXCEPT ![i] = "newContext"]
    /\ UNCHANGED <<explorer, unit, cmp, probe, chunker, setup, faults, routes, concurrency, auth, capturePc, chunkNo,
                   contexts, pages, captured, errors, completed, progress, captureReport>>

\* launch() throws after its last channel: createContext throws outside the
\* try of the task, whose promise rejects
TaskLaunchFail(i) ==
    /\ task[i] = "launch"
    /\ CanFail
    /\ faults' = faults + 1
    /\ task' = [task EXCEPT ![i] = "rejected"]
    /\ UNCHANGED <<explorer, unit, cmp, probe, chunker, setup, session, routes, concurrency, auth, capturePc, chunkNo,
                   contexts, pages, captured, errors, completed, progress, captureReport>>

\* browser.newContext of createContext
TaskContext(i) ==
    /\ task[i] = "newContext"
    /\ CallWorks
    /\ contexts' = contexts \cup {i}
    /\ task' = [task EXCEPT ![i] = "newPage"]
    /\ UNCHANGED <<explorer, unit, cmp, probe, chunker, setup, session, faults, routes, concurrency, auth, capturePc, chunkNo,
                   pages, captured, errors, completed, progress, captureReport>>

\* browser.newContext throws, outside the try of the task
TaskContextFail(i) ==
    /\ task[i] = "newContext"
    /\ CallFails
    /\ faults' = Fault
    /\ task' = [task EXCEPT ![i] = "rejected"]
    /\ UNCHANGED <<explorer, unit, cmp, probe, chunker, setup, session, routes, concurrency, auth, capturePc, chunkNo,
                   contexts, pages, captured, errors, completed, progress, captureReport>>

\* captureRouteWithViewport: createPage
TaskPage(i) ==
    /\ task[i] = "newPage"
    /\ CallWorks
    /\ i \in contexts
    /\ pages' = pages \cup {i}
    /\ task' = [task EXCEPT ![i] = "capture"]
    /\ UNCHANGED <<explorer, unit, cmp, probe, chunker, setup, session, faults, routes, concurrency, auth, capturePc, chunkNo,
                   contexts, captured, errors, completed, progress, captureReport>>

\* catch of the task: errors.push, completed++, onProgress(completed, total)
Caught(i) ==
    /\ errors' = Append(errors, i)
    /\ completed' = completed + 1
    /\ progress' = Append(progress, completed + 1)
    /\ task' = [task EXCEPT ![i] = "contextClose"]
    /\ UNCHANGED captured

\* createPage throws: newPage failed, or addStyleTag failed on the new page
TaskPageFail(i) ==
    /\ task[i] = "newPage"
    /\ CallFails
    /\ faults' = Fault
    /\ \E opened \in {o \in BOOLEAN : o => (i \in contexts /\ session.browser)} :
        pages' = IF opened THEN pages \cup {i} ELSE pages
    /\ Caught(i)
    /\ UNCHANGED <<explorer, unit, cmp, probe, chunker, setup, session, routes, concurrency, auth, capturePc, chunkNo,
                   contexts, captureReport>>

\* captureRoute resolved with the CaptureResult
TaskCapture(i) ==
    /\ task[i] = "capture"
    /\ CallWorks
    /\ i \in pages
    /\ task' = [task EXCEPT ![i] = "pageCloseOk"]
    /\ UNCHANGED <<explorer, unit, cmp, probe, chunker, setup, session, faults, routes, concurrency, auth, capturePc, chunkNo,
                   contexts, pages, captured, errors, completed, progress, captureReport>>

\* captureRoute throws: goto, addStyleTag, mkdir or screenshot failed
TaskCaptureFail(i) ==
    /\ task[i] = "capture"
    /\ CallFails
    /\ faults' = Fault
    /\ task' = [task EXCEPT ![i] = "pageCloseErr"]
    /\ UNCHANGED <<explorer, unit, cmp, probe, chunker, setup, session, routes, concurrency, auth, capturePc, chunkNo,
                   contexts, pages, captured, errors, completed, progress, captureReport>>

\* finally of captureRouteWithViewport: page.close(); then the task goes on in
\* its try (results.push, completed++, onProgress) or in its catch
TaskPageClose(i) ==
    /\ task[i] \in {"pageCloseOk", "pageCloseErr"}
    /\ pages' = pages \ {i}
    /\ IF task[i] = "pageCloseOk"
       THEN /\ captured' = Append(captured, i)
            /\ completed' = completed + 1
            /\ progress' = Append(progress, completed + 1)
            /\ task' = [task EXCEPT ![i] = "contextClose"]
            /\ UNCHANGED errors
       ELSE Caught(i)
    /\ UNCHANGED <<explorer, unit, cmp, probe, chunker, setup, session, faults, routes, concurrency, auth, capturePc, chunkNo,
                   contexts, captureReport>>

\* finally of the task: context.close(), which closes the pages of the context
TaskContextClose(i) ==
    /\ task[i] = "contextClose"
    /\ contexts' = contexts \ {i}
    /\ pages' = pages \ {i}
    /\ task' = [task EXCEPT ![i] = "fulfilled"]
    /\ UNCHANGED <<explorer, unit, cmp, probe, chunker, setup, session, faults, routes, concurrency, auth, capturePc, chunkNo,
                   captured, errors, completed, progress, captureReport>>

CaptureNext ==
    \/ CaptureSetup
    \/ AuthContext \/ AuthContextFail
    \/ AuthPage \/ AuthPageFail
    \/ Authenticate \/ AuthenticateFail
    \/ SaveAuthState \/ SaveAuthStateFail
    \/ AuthFinally
    \/ StartBatch
    \/ AwaitBatch \/ AwaitReject
    \/ CaptureReturn
    \/ CaptureClose
    \/ \E i \in TaskIds : TaskLaunch(i)
    \/ \E i \in TaskIds : TaskLaunchFail(i)
    \/ \E i \in TaskIds : TaskContext(i)
    \/ \E i \in TaskIds : TaskContextFail(i)
    \/ \E i \in TaskIds : TaskPage(i)
    \/ \E i \in TaskIds : TaskPageFail(i)
    \/ \E i \in TaskIds : TaskCapture(i)
    \/ \E i \in TaskIds : TaskCaptureFail(i)
    \/ \E i \in TaskIds : TaskPageClose(i)
    \/ \E i \in TaskIds : TaskContextClose(i)

CaptureSpec == CaptureInit /\ [][CaptureNext]_vars

\* ------------------------------------------------------------ properties
ResultKey(i) == NormalizeUrl(results[i].url)

QueueKey(i) == NormalizeUrl(queue[i].url)

IsPrefix(p, q) == Len(p) <= Len(q) /\ SubSeq(q, 1, Len(p)) = p

\* the item the loop is about to take is visited already
HeadVisited == pc = "loop" /\ LoopContinues /\ NormalizeUrl(Head(queue).url) \in visited

NoDuplicateResults ==
    \A i, j \in 1..Len(results) : i < j => ResultKey(i) # ResultKey(j)

\* C1: no normalized URL is captured twice: the result list holds no two
\* entries with equal normalized URLs, a queue item whose normalized URL is
\* visited is dropped without a capture or a result, and visited only grows.
C1_VisitedOnce ==
    /\ []NoDuplicateResults
    /\ [][/\ visited \subseteq visited'
          /\ HeadVisited => /\ results' = results
                            /\ pc' = "loop"
                            /\ visited' = visited
                            /\ queue' = Tail(queue)]_vars

\* a queue item was dropped as visited, and pages were captured after it
C1_Witness == calls.skips > 0 /\ Len(results) >= 3 /\ status = "completed"

\* C2 (as claimed): every frontier entry has depth <= maxDepth
C2_DepthBound == \A i \in 1..Len(queue) : queue[i].depth <= maxDepth

\* C3: the result list never exceeds maxPages; at maxPages nothing more is
\* taken from the queue; every captured page, failed or not, adds exactly one
\* result, and a skipped item adds none.
C3_PageBudget ==
    /\ [](Len(results) <= maxPages)
    /\ [][/\ Len(results) >= maxPages => (queue' = queue /\ visited' = visited)
          /\ pc = "close" => Len(results') = Len(results) + 1
          /\ pc # "close" => results' = results]_vars

\* the budget is reached with the frontier non-empty, one page having failed
C3_Witness ==
    /\ status = "completed"
    /\ Len(results) = maxPages
    /\ queue # <<>>
    /\ \E i \in 1..Len(results) : results[i].error
    /\ \E i \in 1..Len(queue) : QueueKey(i) \notin visited

C5_OnlyLaunchAborts == status = "aborted" => visited = {}

\* C6: the frontier is first-in first-out and the crawl breadth first: the
\* depths of the results never decrease, the frontier is ordered by depth,
\* and no waiting entry is shallower than a page captured or being captured.
C6_BreadthFirst ==
    /\ \A i, j \in 1..Len(results) : i < j => results[i].depth <= results[j].depth
    /\ \A i, j \in 1..Len(queue) : i < j => queue[i].depth <= queue[j].depth
    /\ \A i \in 1..Len(queue) :
          /\ \A j \in 1..Len(results) : results[j].depth <= queue[i].depth
          /\ pc \notin {"start", "loop", "done", "abort"} => cur.depth <= queue[i].depth

\* the budget ended the run after two pages at depth 1, with an entry at
\* depth 2 still waiting, after a login whose links were queued again
C6_Witness ==
    /\ Len(results) = 3
    /\ results[2].depth = 1 /\ results[3].depth = 1
    /\ authenticated
    /\ \E i \in 1..Len(queue) : queue[i].depth = 2
    /\ status = "completed"

\* C7 (as claimed): the frontier never holds two entries with the same
\* normalized URL, nor an entry that is visited already
C7_NoDuplicateInFrontier ==
    /\ \A i, j \in 1..Len(queue) : i < j => QueueKey(i) # QueueKey(j)
    /\ \A i \in 1..Len(queue) : QueueKey(i) \notin visited

\* C8: authenticated starts false, becomes true at most once and only by a
\* performLogin that returned true on a detected login page, never goes
\* back, and the report carries it.
C8_AuthOneWay ==
    /\ [](/\ authenticated <=> calls.loginsOk > 0
          /\ calls.loginsOk <= 1
          /\ pc = "start" => ~authenticated
          /\ report.produced => (report.authenticated <=> calls.loginsOk > 0))
    /\ [][/\ authenticated => authenticated'
          /\ (~authenticated /\ authenticated') =>
                /\ pc = "auth"
                /\ cur.isLoginPage
                /\ calls'.loginsOk = calls.loginsOk + 1]_vars

\* a report of an authenticated run that captured pages after the login
C8_Witness ==
    /\ report.produced /\ report.authenticated
    /\ \E i \in 1..Len(results) : results[i].isLoginPage /\ i < Len(results)
    /\ calls.logins > calls.loginsOk

\* C9: on a login page the authentication comes after the screenshot of
\* every viewport was attempted and after the links of the page were
\* extracted and queued; the login leaves those queue entries alone.
C9_CaptureBeforeLogin ==
    /\ [](pc \in {"auth", "reextract"} => (cur.vp = NumViewports /\ cur.preDone))
    /\ [][/\ calls'.logins # calls.logins =>
                (pc = "auth" /\ cur.vp = NumViewports /\ cur.preDone /\ queue' = queue)
          /\ calls'.prompts # calls.prompts => (pc = "auth" /\ queue' = queue)
          /\ pc \in {"auth", "reextract"} => IsPrefix(queue, queue')]_vars

\* a login was attempted on a page whose screenshots were taken and whose
\* links were queued before
C9_Witness ==
    /\ pc \in {"reextract", "close"}
    /\ cur.isLoginPage
    /\ calls.logins > 0
    /\ cur.shots = NumViewports
    /\ Len(queue) > cur.queued

\* C10 (as claimed): the site has one login wall, and performLogin is called
\* at most once against it in a run
C10_NoLoginRetry == calls.logins <= 1

\* C11 (as claimed): with credentials at hand the user is never asked; the
\* user is asked at most once in a run, on a login page, and after an empty
\* answer no later login page asks again or attempts a login
C11_PromptOnce ==
    /\ [](calls.prompts <= 1)
    /\ [][/\ credentials = "set" => calls'.prompts = calls.prompts
          /\ calls'.prompts # calls.prompts => (pc = "auth" /\ cur.isLoginPage)
          /\ (calls.prompts > 0 /\ credentials = "none") =>
                (calls'.logins = calls.logins /\ calls'.prompts = calls.prompts)]_vars

\* C12: a performLogin that returns false changes nothing of the crawl:
\* authenticated stays false, the frontier, the visited set, the results and
\* the page's error are as before, and captureUrl goes on to close the page.
C12_FailedLoginHarmless ==
    [][(calls'.logins = calls.logins + 1 /\ calls'.loginsOk = calls.loginsOk) =>
            /\ ~authenticated /\ ~authenticated'
            /\ queue' = queue
            /\ visited' = visited
            /\ results' = results
            /\ cur' = cur
            /\ status' = status
            /\ pc' = "close"]_vars

\* a run that went on to further pages after a login failed on a page whose
\* result carries no error
C12_Witness ==
    /\ status = "completed"
    /\ ~authenticated
    /\ calls.logins > 0
    /\ \E i \in 1..Len(results) :
          results[i].isLoginPage /\ ~results[i].error /\ i < Len(results)

PathOf(url) == ParseUrl(url).path

\* the crawl of the site "budget" ended with a report and no browser failure
BudgetRunDone == site = "budget" /\ report.produced /\ faults = 0

\* the results of the budget run: "/", "/a", "/b" in this order, and
\* "/logout" neither captured nor queued
BudgetResults ==
    /\ Len(results) = 3
    /\ PathOf(results[1].url) = <<"/">> /\ results[1].depth = 0
    /\ PathOf(results[2].url) = <<"/", "a">> /\ results[2].depth = 1
    /\ PathOf(results[3].url) = <<"/", "b">> /\ results[3].depth = 1
    /\ \A i \in 1..Len(results) : PathOf(results[i].url) # <<"/", "logout">>
    /\ \A i \in 1..Len(queue) : PathOf(queue[i].url) # <<"/", "logout">>

\* C13 (as claimed): the budget run ends with exactly the results "/", "/a",
\* "/b", without "/logout" in the results or the frontier, and its report
\* says discovered >= 4
C13_BudgetScenario == BudgetRunDone => (BudgetResults /\ report.discovered >= 4)

\* the start page of the site "login" was captured without error and the
\* one performLogin of the run, on that page, returned true
RootLoginOk ==
    /\ site = "login"
    /\ results # <<>> /\ results[1].isLoginPage /\ ~results[1].error
    /\ calls.logins = 1 /\ calls.loginsOk = 1

DashboardCaptured ==
    \E i \in 1..Len(results) :
        PathOf(results[i].url) = <<"/", "dashboard">> /\ results[i].depth = 1

DashboardQueued ==
    \E i \in 1..Len(queue) :
        PathOf(queue[i].url) = <<"/", "dashboard">> /\ queue[i].depth = 1

Frontier == {QueueKey(i) : i \in 1..Len(queue)}

\* C15 (as claimed): the report's discovered is the number of distinct
\* normalized URLs visited or still queued when the run ends, and each
\* progress callback is passed that number as it is at the call
C15_Discovered ==
    /\ [](report.produced => report.discovered = Cardinality(visited \cup Frontier))
    /\ [][pc = "close" =>
            calls'.discovered = Cardinality(visited' \cup Frontier')]_vars

C17_OneInFlight ==
    /\ [](/\ pageOpen => pc \in {"goto", "detect", "shots", "extract", "auth",
                                 "reextract", "close", "abort"}
          /\ pc \in {"goto", "detect", "shots", "extract", "auth", "reextract", "close"}
                => pageOpen
          /\ pc = "loop" => (~pageOpen /\ cur = NoPage /\ Len(results) = Cardinality(visited)))
    /\ [][/\ queue' # queue /\ Len(queue') < Len(queue) => (pc = "loop" /\ ~pageOpen)
          /\ visited' # visited => (pc = "loop" /\ ~pageOpen /\ pc' = "create")
          /\ (pageOpen /\ ~pageOpen') => pc \in {"close", "abort"}]_vars

\* a second page is open while the first has its result
C17_Witness ==
    /\ pageOpen /\ pc = "auth"
    /\ Len(results) = 1
    /\ Cardinality(visited) = 2
    /\ queue # <<>>

\* ------------------------------------------------------------ captureScreenshot
\* the task whose captureRoute is followed step by step: the last one
UnitTask == Total

\* the warning pushed for a selector timeout, and for a failing action
SelectorWarning == [kind |-> "selector", action |-> 0]

ActionWarning(k) == [kind |-> "action", action |-> k]

\* runCapture with one route, concurrency 1 and no auth, at the call of
\* captureRoute by the last task: the tasks before it captured, the browser
\* launched, context and page of the task open
UnitInit ==
    /\ impl = "playwright"
    /\ site = "any"
    /\ maxDepth = 0
    /\ maxPages = 1
    /\ credentials = "none"
    /\ status = "idle"
    /\ pc = "start"
    /\ queue = <<>>
    /\ visited = {}
    /\ results = <<>>
    /\ authenticated = FALSE
    /\ loginPageUrls = {}
    /\ cur = NoPage
    /\ pageOpen = FALSE
    /\ calls = NoCalls
    /\ report = NoReport
    /\ faults = 0
    /\ session = [NoSession EXCEPT !.browser = TRUE, !.launches = 1]
    /\ routes = 1
    /\ concurrency = 1
    /\ auth = FALSE
    /\ capturePc = "await"
    /\ chunkNo = NumViewports
    /\ task = [i \in 1..NumViewports |-> IF i = NumViewports THEN "capture" ELSE "fulfilled"]
    /\ contexts = {NumViewports}
    /\ pages = {NumViewports}
    /\ captured = [i \in 1..(NumViewports - 1) |-> i]
    /\ errors = <<>>
    /\ completed = NumViewports - 1
    /\ progress = [i \in 1..(NumViewports - 1) |-> i]
    /\ captureReport = NoCaptureReport
    /\ setup = NoSetup
    /\ \E w, m \in BOOLEAN, n \in 0..MaxActions :
        unit = [NoUnit EXCEPT !.waitForSelector = w, !.mask = m, !.actions = n,
                              !.pc = "goto"]
    /\ cmp = NoCmp
    /\ probe = NoProbe
    /\ chunker = NoChunker

\* after page.goto: the selector wait if one is configured, else the actions
AfterGoto == IF unit.waitForSelector THEN "wait" ELSE "actions"

\* page.goto resolved
UnitGoto ==
    /\ unit.pc = "goto"
    /\ unit' = [unit EXCEPT !.pc = AfterGoto]
    /\ UNCHANGED <<explorer, capture, session, faults, cmp, probe, chunker>>

\* captureScreenshot throws (goto, addStyleTag, mkdir or screenshot): the
\* finally of captureRouteWithViewport is next, then the catch of the task
UnitThrows ==
    /\ CanFail
    /\ faults' = faults + 1
    /\ unit' = [unit EXCEPT !.pc = "thrown"]
    /\ task' = [task EXCEPT ![UnitTask] = "pageCloseErr"]
    /\ UNCHANGED <<explorer, cmp, probe, chunker, session, routes, concurrency, auth, capturePc, chunkNo,
                   contexts, pages, captured, errors, completed, progress, captureReport,
                   setup>>

UnitGotoFail ==
    /\ unit.pc = "goto"
    /\ UnitThrows

\* page.waitForSelector resolved, or timed out: caught, one warning
UnitWait ==
    /\ unit.pc = "wait"
    /\ \E timeout \in BOOLEAN :
        unit' = [unit EXCEPT !.pc = "actions",
                             !.timedOut = timeout,
                             !.warnings = IF timeout THEN Append(@, SelectorWarning) ELSE @]
    /\ UNCHANGED <<explorer, capture, session, faults, cmp, probe, chunker>>

\* seeded fault: a failing action ends the loop over the actions
AfterAction_Stops(failed) == IF failed THEN "mask" ELSE "actions"

\* the catch inside the loop over the actions: the loop goes on
AfterAction(failed) == "actions"

\* for (const action of options.actions): executeAction resolved, or threw and
\* was caught with one warning
UnitAction ==
    /\ unit.pc = "actions"
    /\ Len(unit.attempted) < unit.actions
    /\ LET k == Len(unit.attempted) + 1
       IN \E failed \in BOOLEAN :
            unit' = [unit EXCEPT !.attempted = Append(@, k),
                                 !.failed = IF failed THEN @ \cup {k} ELSE @,
                                 !.warnings = IF failed THEN Append(@, ActionWarning(k)) ELSE @,
                                 !.pc = AfterAction(failed)]
    /\ UNCHANGED <<explorer, capture, session, faults, cmp, probe, chunker>>

\* the loop over the actions is over (or there were none)
UnitActionsDone ==
    /\ unit.pc = "actions"
    /\ Len(unit.attempted) = unit.actions
    /\ unit' = [unit EXCEPT !.pc = "mask"]
    /\ UNCHANGED <<explorer, capture, session, faults, cmp, probe, chunker>>

\* masking (addStyleTag when a mask is configured) and waitAfterLoad
UnitMask ==
    /\ unit.pc = "mask"
    /\ unit' = [unit EXCEPT !.pc = "screenshot"]
    /\ UNCHANGED <<explorer, capture, session, faults, cmp, probe, chunker>>

UnitMaskFail ==
    /\ unit.pc = "mask"
    /\ unit.mask
    /\ UnitThrows

\* mkdir and page.screenshot; captureScreenshot returns the CaptureResult with
\* its warnings to captureRouteWithViewport
UnitScreenshot ==
    /\ unit.pc = "screenshot"
    /\ unit' = [unit EXCEPT !.shot = TRUE, !.pc = "returned"]
    /\ task' = [task EXCEPT ![UnitTask] = "pageCloseOk"]
    /\ UNCHANGED <<explorer, cmp, probe, chunker, session, faults, routes, concurrency, auth, capturePc, chunkNo,
                   contexts, pages, captured, errors, completed, progress, captureReport,
                   setup>>

UnitScreenshotFail ==
    /\ unit.pc = "screenshot"
    /\ UnitThrows

UnitNext ==
    \/ UnitGoto \/ UnitGotoFail
    \/ UnitWait
    \/ UnitAction \/ UnitActionsDone
    \/ UnitMask \/ UnitMaskFail
    \/ UnitScreenshot \/ UnitScreenshotFail
    \/ \E i \in TaskIds : TaskPageClose(i)
    \/ \E i \in TaskIds : TaskContextClose(i)
    \/ AwaitBatch
    \/ CaptureReturn
    \/ CaptureClose

UnitSpec == UnitInit /\ [][UnitNext]_vars

\* ------------------------------------------------------------ capture() claims
\* the batch a task belongs to when the tasks are cut, in submission order,
\* into consecutive batches of `concurrency` tasks
BatchOf(i) == ((i - 1) \div concurrency) + 1

InFlight == {i \in TaskIds : Running(i)}

Settled(i) == task[i] \in {"fulfilled", "rejected"}

\* C18: the chunks of capture() are the consecutive batches of exactly
\* `concurrency` tasks in submission order (the last one may be smaller), never
\* more than `concurrency` tasks or browser contexts are in flight, and no
\* task of a later batch has started while a task of an earlier batch has not
\* finished
C18_Batches ==
    capturePc # "idle" =>
        LET tasks == CreateCaptureTasks
            chunks == ChunkArray(tasks, concurrency)
            ids(k) == {TaskIndex(chunks[k][n]) : n \in 1..Len(chunks[k])}
        IN  /\ \A k \in 1..Len(chunks) :
                /\ chunks[k] = [n \in 1..Len(chunks[k]) |->
                                  tasks[(k - 1) * concurrency + n]]
                /\ ids(k) = {i \in TaskIds : BatchOf(i) = k}
                /\ k < Len(chunks) => Len(chunks[k]) = concurrency
                /\ Len(chunks[k]) \in 1..concurrency
            /\ \A i \in TaskIds : \E k \in 1..Len(chunks) : i \in ids(k)
            /\ Cardinality(InFlight) <= concurrency
            /\ Cardinality(contexts) <= concurrency
            /\ \A i, j \in TaskIds :
                (BatchOf(i) < BatchOf(j) /\ task[j] # "pending") => Settled(i)

\* the second batch runs after a first batch of two tasks, one captured and
\* one failed
C18_Witness ==
    /\ concurrency = 2
    /\ chunkNo = 2
    /\ task[3] = "capture"
    /\ errors = <<1>>
    /\ captured = <<2>>
    /\ 3 \in contexts

CaptureEnded == capturePc \in {"returned", "rejected", "done"}

\* C19: once capture() has returned or rejected, and after runCapture has
\* closed the engine, no context or page of a task is open and no task is
\* still running
C19_Released ==
    CaptureEnded => (contexts = {} /\ pages = {} /\ InFlight = {})

RECURSIVE UpTo(_)
UpTo(n) == IF n = 0 THEN <<>> ELSE Append(UpTo(n - 1), n)

\* C20: no failure inside a task ends capture(): the promise of a task never
\* rejects and a capture() that started its tasks returns a report; the report
\* has total = successful + failed = number of tasks, every task is in exactly
\* one of results and errors, exactly once, and onProgress was called with
\* completed = 1, 2, ..., total in that order
C20_Accounted ==
    /\ \A i \in DOMAIN task : task[i] # "rejected"
    /\ (CaptureEnded /\ chunkNo > 0) => captureReport.produced
    /\ captureReport.produced =>
        /\ captureReport.total = Total
        /\ captureReport.total = captureReport.successful + captureReport.failed
        /\ \A i \in TaskIds :
            Cardinality({n \in 1..Len(captured) : captured[n] = i})
              + Cardinality({n \in 1..Len(errors) : errors[n] = i}) = 1
        /\ progress = UpTo(Total)

UnitRunning == unit.pc \in {"goto", "wait", "actions", "mask", "screenshot"}

\* the warnings the failures so far call for: the selector timeout first, then
\* the failing actions in list order
RECURSIVE ActionWarnings(_)
ActionWarnings(k) ==
    IF k = 0 THEN <<>>
    ELSE ActionWarnings(k - 1) \o (IF k \in unit.failed THEN <<ActionWarning(k)>> ELSE <<>>)

ExpectedWarnings ==
    (IF unit.timedOut THEN <<SelectorWarning>> ELSE <<>>) \o ActionWarnings(unit.actions)

\* C22: the actions are best-effort: once past the loop every configured
\* action has been attempted exactly once in list order whatever failed before
\* it; a selector timeout and each failing action gave exactly one warning; a
\* failing wait or action never makes captureScreenshot throw; a returned
\* capture has its screenshot; and a capture returned with warnings ends up in
\* results and in successful, not in errors or failed
C22_BestEffort ==
    /\ [](unit.pc \in {"mask", "screenshot", "returned"} =>
            /\ unit.attempted = [k \in 1..unit.actions |-> k]
            /\ unit.warnings = ExpectedWarnings)
    /\ [][unit.pc \in {"wait", "actions"} => unit'.pc # "thrown"]_vars
    /\ [](unit.pc = "returned" => unit.shot)
    /\ []((unit.pc = "returned" /\ ~Running(UnitTask)) =>
            /\ UnitTask \in SeqRange(captured)
            /\ UnitTask \notin SeqRange(errors))
    /\ []((unit.pc = "returned" /\ captureReport.produced) =>
            /\ captureReport.successful = Total
            /\ captureReport.failed = 0)

\* a reported capture whose selector wait timed out and whose first action
\* failed, the second action having run after it
C22_Witness ==
    /\ unit.actions = 2
    /\ unit.failed = {1}
    /\ unit.timedOut
    /\ unit.warnings = <<SelectorWarning, ActionWarning(1)>>
    /\ unit.shot
    /\ captureReport.produced /\ captureReport.successful = Total

\* ------------------------------------------------------------ link filter claims
\* the seed entry of the frontier, or its result
IsSeed(e) == e.depth = 0 /\ IsRoot(e.url)

\* C23: every frontier entry other than the seed passes shouldCrawl with
\* respect to the start URL and the exclude and include globs of the run, and
\* no result other than the seed has a path matching an exclude glob
C23_OnlyCrawlable ==
    /\ \A i \in 1..Len(queue) :
        IsSeed(queue[i]) \/ CrawlerShouldCrawl(queue[i].url, StartUrl, RunExclude, RunInclude)
    /\ \A i \in 1..Len(results) :
        IsSeed(results[i]) \/ ~MatchesPattern(ParseUrl(results[i].url).path, RunExclude)

\* what the extraction yields when each href is resolved against the page it
\* was found on
LinksAgainstPage ==
    CrawlerExtractWith(DocsAnchors(cur.url), [CrawlOptions EXCEPT !.resolveBase = cur.url], <<>>)

\* C24: on the page "/docs/guide" the relative href "intro" is queued as
\* "/docs/intro": the extraction queues what the anchors of the page resolve
\* to against the page itself, each normalized URL once, the href that does
\* not parse being skipped
C24_ResolvedAgainstPage ==
    [][(site \in DocsSites /\ cur.url = DocsGuide /\ WithinDepth(cur.depth) /\ ExtractAndEnqueue)
        => /\ LinksAgainstPage = << SiteUrl(<<"/", "docs", "/", "intro">>) >>
           /\ queue' = PushLinks(queue, LinksAgainstPage, cur.depth)]_vars

\* ------------------------------------------------------- comparison engine
\* the files tried under baselines/ and under current/: a pair of one-pixel
\* images, pairs of two-pixel images that are equal or differ in one pixel,
\* and pairs that differ in width or in height
BaselineImages == {Corrupt, Png(1, 1, <<0>>), Png(2, 1, <<0, 0>>)}

CurrentImages == BaselineImages \cup {Png(2, 1, <<0, 1>>), Png(1, 2, <<0, 0>>)}

\* config.threshold.failureThreshold, in percent, and config.threshold.pixel,
\* as the colour distance two pixels may have and still match
FailureThresholds == {0, 50, 100}

PixelThresholds == {0, 1}

Abs(x) == IF x < 0 THEN -x ELSE x

\* pixelmatch(img1, img2, diff, width, height, {threshold}): the pixels whose
\* colours are further apart than the threshold
pixelmatch(img1, img2, threshold) ==
    Cardinality({i \in 1..Len(img1) : Abs(img1[i] - img2[i]) > threshold})

\* the DiffResult of a pair that could not be compared
ErrorResult(w, h, message) ==
    [diffPixels |-> 0, totalPixels |-> 0, diffPercentage |-> 100, passed |-> FALSE,
     diffImagePath |-> FALSE, width |-> w, height |-> h, error |-> message]

\* (diffPixels / totalPixels) * 100; every image tried has a pixel count that
\* divides 100
DiffPercentage(diffPixels, totalPixels) == (diffPixels * 100) \div totalPixels

Passed_Below(diffPercentage, failureThreshold) == diffPercentage < failureThreshold

Passed(diffPercentage, failureThreshold) == diffPercentage <= failureThreshold

\* diffPath && diffPixels > 0, runComparison always passing a diffPath
SavesDiff(diffPixels) == diffPixels > 0

\* compareImages(baselinePath, currentPath, diffPath, failureThreshold, options)
compareImages(baseline, current, failureThreshold, threshold) ==
    IF baseline.kind = "corrupt" THEN ErrorResult(0, 0, "Failed to load baseline image")
    ELSE IF current.kind = "corrupt" THEN ErrorResult(0, 0, "Failed to load current image")
    ELSE IF baseline.width # current.width \/ baseline.height # current.height
    THEN ErrorResult(baseline.width, baseline.height, "Image dimensions don't match")
    ELSE LET totalPixels == baseline.width * baseline.height
             diffPixels == pixelmatch(baseline.data, current.data, threshold)
             diffPercentage == DiffPercentage(diffPixels, totalPixels)
         IN  [diffPixels |-> diffPixels, totalPixels |-> totalPixels,
              diffPercentage |-> diffPercentage,
              passed |-> Passed(diffPercentage, failureThreshold),
              diffImagePath |-> SavesDiff(diffPixels),
              width |-> baseline.width, height |-> baseline.height, error |-> ""]

\* baselineSet and currentSet of runComparison
BaselineSet == {p \in Paths : cmp.baseline[p].kind # "none"}

CurrentSet == {p \in Paths : cmp.current[p].kind # "none"}

RECURSIVE Ascending(_)
Ascending(S) ==
    IF S = {} THEN <<>>
    ELSE LET m == CHOOSE x \in S : \A y \in S : x <= y
         IN  <<m>> \o Ascending(S \ {m})

\* new Set([...baselineSet, ...currentSet]) in its insertion order
AllFiles == Ascending(BaselineSet) \o Ascending(CurrentSet \ BaselineSet)

\* the branch of the loop body for a path
Branch_MissingCompared(hasBaseline, hasCurrent) ==
    IF ~hasBaseline /\ hasCurrent THEN "new" ELSE "compare"

Branch(hasBaseline, hasCurrent) ==
    IF ~hasBaseline /\ hasCurrent THEN "new"
    ELSE IF hasBaseline /\ ~hasCurrent THEN "missing"
    ELSE "compare"

\* the result of a new or missing screenshot
Unpaired(relativePath, st) ==
    [path |-> relativePath, status |-> st, diffPixels |-> 0, totalPixels |-> 0,
     diffPercentage |-> 0, passed |-> FALSE, diffImagePath |-> FALSE, width |-> 0,
     height |-> 0, error |-> ""]

\* the result of a path present in both trees: the DiffResult with its status
Paired(relativePath, diffResult) ==
    [path |-> relativePath,
     status |-> IF diffResult.error # "" THEN "error"
                ELSE IF diffResult.passed THEN "passed" ELSE "failed",
     diffPixels |-> diffResult.diffPixels, totalPixels |-> diffResult.totalPixels,
     diffPercentage |-> diffResult.diffPercentage, passed |-> diffResult.passed,
     diffImagePath |-> diffResult.diffImagePath, width |-> diffResult.width,
     height |-> diffResult.height, error |-> diffResult.error]

\* the ComparisonResult the loop body builds for a path
ResultFor(relativePath) ==
    LET branch == Branch(relativePath \in BaselineSet, relativePath \in CurrentSet)
    IN  IF branch = "compare"
        THEN Paired(relativePath,
                    compareImages(cmp.baseline[relativePath], cmp.current[relativePath],
                                  cmp.failureThreshold, cmp.pixel))
        ELSE Unpaired(relativePath, branch)

\* results.filter((r) => r.status === status).length
Count(rs, st) == Cardinality({i \in 1..Len(rs) : rs[i].status = st})

\* the command is started: the trees and the thresholds are what they are
CompareInit ==
    /\ impl = "playwright"
    /\ site = "any"
    /\ maxDepth = 0
    /\ maxPages = 1
    /\ Constructed
    /\ CaptureIdle
    /\ probe = NoProbe
    /\ chunker = NoChunker
    /\ \E b \in [Paths -> {NoFile} \cup BaselineImages],
          c \in [Paths -> {NoFile} \cup CurrentImages],
          f \in FailureThresholds, t \in PixelThresholds :
        cmp = [NoCmp EXCEPT !.pc = "start", !.baseline = b, !.current = c,
                            !.failureThreshold = f, !.pixel = t]

\* runComparison up to its loop: the union of the relative paths of both trees
ListFiles ==
    /\ cmp.pc = "start"
    /\ cmp' = [cmp EXCEPT !.allFiles = AllFiles, !.total = Len(AllFiles), !.pc = "loop"]
    /\ UNCHANGED <<explorer, capture, unit, session, faults, probe, chunker>>

\* one iteration of the loop of runComparison; compareImages saves the diff
\* image of the pair
ComparePath ==
    /\ cmp.pc = "loop"
    /\ cmp.completed < Len(cmp.allFiles)
    /\ LET relativePath == cmp.allFiles[cmp.completed + 1]
           result == ResultFor(relativePath)
       IN  cmp' = [cmp EXCEPT !.results = Append(@, result),
                              !.completed = @ + 1,
                              !.diffs = IF result.diffImagePath
                                        THEN @ \cup {relativePath} ELSE @]
    /\ UNCHANGED <<explorer, capture, unit, session, faults, probe, chunker>>

\* the summary runComparison returns to the command
ReturnReport ==
    /\ cmp.pc = "loop"
    /\ cmp.completed = Len(cmp.allFiles)
    /\ cmp' = [cmp EXCEPT !.report = [produced |-> TRUE, total |-> cmp.total,
                                      passed |-> Count(cmp.results, "passed"),
                                      failed |-> Count(cmp.results, "failed"),
                                      new |-> Count(cmp.results, "new"),
                                      missing |-> Count(cmp.results, "missing"),
                                      errors |-> Count(cmp.results, "error")],
                          !.pc = "command"]
    /\ UNCHANGED <<explorer, capture, unit, session, faults, probe, chunker>>

\* the options of the command: --json, --update-missing, --report /
\* --no-report, --junit <path>
CompareOptions == [json : BOOLEAN, updateMissing : BOOLEAN, report : BOOLEAN,
                   junit : BOOLEAN]

\* the exit code of the --json branch
JsonExit(rep, opts) == IF rep.failed > 0 \/ rep.errors > 0 THEN 1 ELSE 0

\* the exit code at the end of the action: process.exit(1) or a return
FinalExit(rep, opts) ==
    IF rep.failed > 0 \/ rep.errors > 0
       \/ (rep.new > 0 /\ ~opts.updateMissing)
    THEN 1 ELSE 0

\* --json: the report is printed and the process exits
ExitJson ==
    /\ cmp.pc = "command"
    /\ \E o \in CompareOptions :
        /\ o.json
        /\ cmp' = [cmp EXCEPT !.options = o, !.exit = JsonExit(cmp.report, o),
                              !.pc = "exited"]
    /\ UNCHANGED <<explorer, capture, unit, session, faults, probe, chunker>>

\* the report files the command generates
ReportFiles(rep, opts) ==
    IF opts.report /\ rep.total > 0
    THEN {"html", "json"} \cup (IF opts.junit THEN {"junit"} ELSE {})
    ELSE IF opts.junit /\ rep.total > 0 THEN {"junit"} ELSE {}

\* without --json: the reports are generated and the summary is printed
GenerateReports ==
    /\ cmp.pc = "command"
    /\ \E o \in CompareOptions :
        /\ ~o.json
        /\ cmp' = [cmp EXCEPT !.options = o, !.written = ReportFiles(cmp.report, o),
                              !.pc = "summary"]
    /\ UNCHANGED <<explorer, capture, unit, session, faults, probe, chunker>>

\* the end of the action
ExitCode ==
    /\ cmp.pc = "summary"
    /\ cmp' = [cmp EXCEPT !.exit = FinalExit(cmp.report, cmp.options), !.pc = "exited"]
    /\ UNCHANGED <<explorer, capture, unit, session, faults, probe, chunker>>

CompareNext ==
    \/ ListFiles
    \/ ComparePath
    \/ ReturnReport
    \/ ExitJson
    \/ GenerateReports
    \/ ExitCode

CompareSpec == CompareInit /\ [][CompareNext]_vars

\* the comparison domain: the relative paths of both trees
Union == BaselineSet \cup CurrentSet

ResultsAt(relativePath) ==
    {i \in 1..Len(cmp.results) : cmp.results[i].path = relativePath}

\* C25: the report runComparison returns has exactly one result for every
\* relative path of the union of both trees and none for any other path; a
\* result is `new` exactly when its path is only under current/ and `missing`
\* exactly when it is only under baselines/, whatever the pixel and failure
\* thresholds are; total is the size of the union, and passed + failed + new
\* + missing + errors = total.
C25_OnePerPath ==
    cmp.report.produced =>
        /\ \A p \in Paths : Cardinality(ResultsAt(p)) = (IF p \in Union THEN 1 ELSE 0)
        /\ \A i \in 1..Len(cmp.results) :
            LET r == cmp.results[i]
            IN  /\ r.status = "new" <=> r.path \in CurrentSet \ BaselineSet
                /\ r.status = "missing" <=> r.path \in BaselineSet \ CurrentSet
        /\ cmp.report.total = Cardinality(Union)
        /\ cmp.report.passed + cmp.report.failed + cmp.report.new
            + cmp.report.missing + cmp.report.errors = cmp.report.total

\* a report over one new and one missing screenshot, at a failure threshold
\* above zero
C25_Witness ==
    /\ cmp.report.produced
    /\ cmp.report.new = 1
    /\ cmp.report.missing = 1
    /\ cmp.report.total = 2
    /\ cmp.failureThreshold > 0

\* both files of a path are PNGs and they differ in width or in height
DimensionsDiffer(relativePath) ==
    LET b == cmp.baseline[relativePath]
        c == cmp.current[relativePath]
    IN  /\ b.kind = "png"
        /\ c.kind = "png"
        /\ (b.width # c.width \/ b.height # c.height)

\* C26: a path in both trees whose images differ in width or height gets the
\* status `error`, no numeric diff percentage and no diff image, and the
\* comparison goes on to the remaining paths.
C26_MismatchIsError ==
    /\ \A i \in 1..Len(cmp.results) :
        LET r == cmp.results[i]
        IN  DimensionsDiffer(r.path) =>
                /\ r.status = "error"
                /\ r.diffPercentage \notin Nat
                /\ r.path \notin cmp.diffs
    /\ cmp.report.produced => Len(cmp.results) = Cardinality(Union)

\* both files of a path are PNGs of the same width and height
Comparable(relativePath) ==
    LET b == cmp.baseline[relativePath]
        c == cmp.current[relativePath]
    IN  /\ b.kind = "png"
        /\ c.kind = "png"
        /\ b.width = c.width
        /\ b.height = c.height

C28_ExitCode ==
    cmp.pc = "exited" =>
        (cmp.exit # 0 <=>
            \/ cmp.report.failed > 0
            \/ cmp.report.errors > 0
            \/ (cmp.report.new > 0 /\ ~cmp.options.updateMissing))

\* ------------------------------------------------------------- URL helpers
\* a call of normalizeUrl or of shouldCrawl on its own
ProbePaths ==
    {<<>>, <<"/">>, <<"/", "docs">>, <<"/", "docs", "/">>, <<"/", "docs", "/", "/">>,
     <<"/", "docs", "/", "logo", ".", "png">>, <<"/", "docs", "/", "logo", ".", "PNG">>,
     <<"/", "data", ".", "json">>, <<"/", "png">>,
     <<"/", "admin">>, <<"/", "admin", "/", "settings">>, <<"/", "logout">>,
     <<"/", "LOGOUT">>, <<"/", "x", "/", "logout">>, <<"/", "dashboard">>,
     <<"/", "docs", "/", "guide">>}

ProbeUrls ==
    {MkUrl("https:", SiteHost, p, s, h) :
        p \in ProbePaths, s \in {<<>>, <<"?", "q">>}, h \in {<<>>, <<"#", "top">>}}
    \cup {MkUrl("relative", "", <<"docs", "/">>, <<>>, <<"#", "top">>),
          MkUrl("invalid", "", <<"not-a-url">>, <<>>, <<>>),
          MkUrl("mailto:", "", <<"a", ".", "png">>, <<>>, <<>>)}

\* options.exclude and options.include tried
ProbeExcludes ==
    {<<>>, << <<"/", "admin", "/", "*">> >>,
     << <<"/", "admin", "/", "*">>, <<"/", "logout">> >>}

ProbeIncludes ==
    {<<>>, << <<"*">> >>, << <<"/", "docs", "/", "*">> >>, << <<"*", ".", "png">> >>,
     << <<"/", "?", "/", "logout">>, <<"/", "dashboard">> >>}

ProbeInit ==
    /\ impl = "playwright"
    /\ site = "any"
    /\ maxDepth = 0
    /\ maxPages = 1
    /\ Constructed
    /\ CaptureIdle
    /\ cmp = NoCmp
    /\ \E u \in ProbeUrls : probe = [NoProbe EXCEPT !.pc = "called", !.url = u]
    /\ chunker = NoChunker

\* crawler.ts normalizeUrl(url, removeQuery) returns
CallNormalizeUrl ==
    /\ probe.pc = "called"
    /\ \E removeQuery \in BOOLEAN :
        probe' = [probe EXCEPT !.pc = "normalizeUrl", !.removeQuery = removeQuery,
                               !.normalized = CrawlerNormalizeUrl(probe.url, removeQuery)]
    /\ UNCHANGED <<explorer, capture, unit, session, faults, cmp, chunker>>

\* puppeteer-explorer.ts normalizeUrl(url) returns
CallPuppeteerNormalizeUrl ==
    /\ probe.pc = "called"
    /\ probe' = [probe EXCEPT !.pc = "puppeteerNormalizeUrl",
                              !.normalized = PuppeteerNormalizeUrl(probe.url)]
    /\ UNCHANGED <<explorer, capture, unit, session, faults, cmp, chunker>>

\* crawler.ts shouldCrawl(url, {baseUrl, exclude, include}) returns
CallShouldCrawl ==
    /\ probe.pc = "called"
    /\ \E exclude \in ProbeExcludes, include \in ProbeIncludes :
        probe' = [probe EXCEPT !.pc = "shouldCrawl", !.exclude = exclude,
                               !.include = include,
                               !.crawl = CrawlerShouldCrawl(probe.url, StartUrl,
                                                            exclude, include)]
    /\ UNCHANGED <<explorer, capture, unit, session, faults, cmp, chunker>>

ProbeNext ==
    \/ CallNormalizeUrl
    \/ CallPuppeteerNormalizeUrl
    \/ CallShouldCrawl

ProbeSpec == ProbeInit /\ [][ProbeNext]_vars

\* probe.normalized is what a normalizeUrl returned for probe.url
Normalized == probe.pc \in {"normalizeUrl", "puppeteerNormalizeUrl"}

\* the normalizeUrl that was called, applied to another URL
SameNormalizeUrl(u) ==
    IF probe.pc = "normalizeUrl" THEN CrawlerNormalizeUrl(u, probe.removeQuery)
    ELSE PuppeteerNormalizeUrl(u)

\* two URL strings that differ only by the fragment
DifferByFragment(u, v) == [u EXCEPT !.hash = <<>>] = [v EXCEPT !.hash = <<>>]

\* v is u with a "/" added to its path, the path of u being neither the root
\* nor one that ends in "/"
DifferByTrailingSlash(u, v) ==
    /\ ~ Unparsable(u)
    /\ u.path # <<>>
    /\ u.path[Len(u.path)] # "/"
    /\ v = [u EXCEPT !.path = Append(u.path, "/")]

\* C29: each normalizeUrl returns the canonical form: no fragment, the query
\* kept unless removeQuery is set, one trailing slash removed from a path
\* other than the root, the root with its "/", and an unparsable input
\* unchanged; two URLs that differ only by the fragment, or only by a
\* trailing slash on a non-root path, get the same string.
C29_Canonical ==
    Normalized =>
        LET u == probe.url
            n == probe.normalized
            path == ParseUrl(u).path
        IN  /\ Unparsable(u) => n = u
            /\ ~ Unparsable(u) =>
                /\ n.scheme = u.scheme
                /\ n.host = u.host
                /\ n.hash = <<>>
                /\ n.search = (IF probe.removeQuery THEN <<>> ELSE u.search)
                /\ n.path = (IF path # <<"/">> /\ path[Len(path)] = "/"
                             THEN SubSeq(path, 1, Len(path) - 1) ELSE path)
            /\ \A v \in ProbeUrls :
                (DifferByFragment(u, v) \/ DifferByTrailingSlash(u, v)
                    \/ DifferByTrailingSlash(v, u))
                    => UrlTokens(SameNormalizeUrl(v)) = UrlTokens(n)

\* the path of a URL ends in a resource extension of the denylist, in any case
EndsInResourceExtension(u) ==
    \E e \in ResourceExtensions : IsSuffix(<<".", e>>, LowerSeq(ParseUrl(u).path))

\* C30: shouldCrawl returns false for every URL whose path ends, in any
\* letter case, in a resource extension of the denylist, whatever exclude and
\* include are.
C30_ResourcesRejected ==
    (probe.pc = "shouldCrawl" /\ EndsInResourceExtension(probe.url)) => ~ probe.crawl

\* an internal upper-case .PNG URL that an include glob matches is rejected
C30_Witness ==
    /\ probe.pc = "shouldCrawl"
    /\ probe.url = SiteUrl(<<"/", "docs", "/", "logo", ".", "PNG">>)
    /\ probe.include = << <<"/", "docs", "/", "*">> >>
    /\ MatchesPattern(probe.url.path, probe.include)
    /\ probe.exclude = <<>>
    /\ ~ probe.crawl

\* an internal http(s) page URL: shouldCrawl gets as far as its patterns
PageUrl(u) ==
    /\ u.scheme \in {"http:", "https:"}
    /\ u.host = SiteHost
    /\ ~ EndsInResourceExtension(u)

\* the path lies under the directory /docs/
UnderDocs(path) == Len(path) >= 3 /\ SubSeq(path, 1, 3) = <<"/", "docs", "/">>

\* C31: for an internal page URL shouldCrawl is false when the path matches
\* an exclude glob, also when it matches an include glob too, and otherwise
\* true iff the include list is empty or the path matches one of its globs;
\* a glob matches the whole path, ignoring case, "*" standing for any run of
\* characters and "?" for one.  With exclude ['/admin/*', '/logout'] the
\* paths /admin/settings, /logout and /LOGOUT are rejected while /dashboard,
\* /admin and /x/logout are not excluded; with include ['/docs/*'] and no
\* exclude exactly the paths under /docs/ are accepted, and with include
\* ['/?/logout', '/dashboard'] exactly /x/logout and /dashboard.
C31_ExcludeBeforeInclude ==
    (probe.pc = "shouldCrawl" /\ PageUrl(probe.url)) =>
        LET path == ParseUrl(probe.url).path
            excluded == MatchesPattern(path, probe.exclude)
            included == probe.include = <<>> \/ MatchesPattern(path, probe.include)
        IN  /\ excluded => ~ probe.crawl
            /\ ~ excluded => (probe.crawl <=> included)
            /\ probe.exclude = << <<"/", "admin", "/", "*">>, <<"/", "logout">> >> =>
                /\ path \in {<<"/", "admin", "/", "settings">>, <<"/", "logout">>,
                             <<"/", "LOGOUT">>} => ~ probe.crawl
                /\ (path \in {<<"/", "dashboard">>, <<"/", "admin">>,
                              <<"/", "x", "/", "logout">>} /\ probe.include = <<>>)
                        => probe.crawl
            /\ (probe.exclude = <<>> /\ probe.include = << <<"/", "docs", "/", "*">> >>)
                    => (probe.crawl <=> UnderDocs(path))
            /\ (probe.exclude = <<>>
                    /\ probe.include = << <<"/", "?", "/", "logout">>, <<"/", "dashboard">> >>)
                    => (probe.crawl <=> path \in {<<"/", "x", "/", "logout">>,
                                                  <<"/", "dashboard">>})

\* /admin/settings matches the exclude glob /admin/* and the include glob *
\* and is rejected
C31_Witness ==
    /\ probe.pc = "shouldCrawl"
    /\ probe.url = SiteUrl(<<"/", "admin", "/", "settings">>)
    /\ probe.exclude = << <<"/", "admin", "/", "*">>, <<"/", "logout">> >>
    /\ probe.include = << <<"*">> >>
    /\ MatchesPattern(probe.url.path, probe.include)
    /\ ~ probe.crawl

\* ------------------------------------------------------ screenshot file names
\* a token that is a run of letters and digits
IsWord(t) == t \notin {"/", ".", "-", "_", "?", "#"}

RECURSIVE Squeeze(_)
\* String.replace(/[^a-z0-9]+/g, '-'): every run of other characters becomes
\* one "-"
Squeeze(s) ==
    IF s = <<>> THEN <<>>
    ELSE IF IsWord(s[1]) THEN <<s[1]>> \o Squeeze(Tail(s))
    ELSE IF Len(s) > 1 /\ ~ IsWord(s[2]) THEN Squeeze(Tail(s))
    ELSE <<"-">> \o Squeeze(Tail(s))

\* String.replace(/^\/|\/$/g, ''): one leading and one trailing "/" removed
TrimSlash(p) ==
    LET q == IF p # <<>> /\ p[1] = "/" THEN Tail(p) ELSE p
    IN  IF q # <<>> /\ q[Len(q)] = "/" THEN SubSeq(q, 1, Len(q) - 1) ELSE q

\* String.replace(/^-|-$/g, '')
TrimDash(p) ==
    LET q == IF p # <<>> /\ p[1] = "-" THEN Tail(p) ELSE p
    IN  IF q # <<>> /\ q[Len(q)] = "-" THEN SubSeq(q, 1, Len(q) - 1) ELSE q

\* crawler.ts getPathName(url)
CrawlerGetPathName(url) ==
    IF Unparsable(url) THEN <<"page">>
    ELSE LET path == ParseUrl(url).path
         IN  IF path = <<"/">> THEN <<"home">>
             ELSE LowerSeq(Squeeze(TrimSlash(path)))

\* viewport.name || `${viewport.width}x${viewport.height}` of the k-th
\* configured viewport, the viewports having different names and sizes
ViewportName(k) == IF k = 1 THEN "desktop" ELSE IF k = 2 THEN "mobile" ELSE "tablet"

\* generateScreenshotFilename(routeName, viewport) without a timezone
GenerateScreenshotFilename(routeName, k) ==
    TrimDash(Squeeze(LowerSeq(routeName))) \o <<"-", ViewportName(k), ".png">>

\* puppeteer-explorer.ts getPathName(url)
PuppeteerGetPathName(url) ==
    IF Unparsable(url) THEN <<"unknown">>
    ELSE LET path == TrimSlash(ParseUrl(url).path)
         IN  IF path = <<>> THEN <<"home">>
             ELSE [i \in 1..Len(path) |-> IF path[i] = "/" THEN "-" ELSE path[i]]

\* puppeteer-explorer.ts generateFilename(path, viewport), on the day of the run
GenerateFilename(path, k) == path \o <<"_", ViewportName(k), "_", "date", ".png">>

\* the file captureUrl writes for a URL and its k-th viewport
OutputFile(url, k) ==
    IF impl = "playwright"
    THEN GenerateScreenshotFilename(<<"explore", "-">> \o CrawlerGetPathName(url), k)
    ELSE GenerateFilename(<<"explore", "-">> \o PuppeteerGetPathName(url), k)

\* the files of the screenshots of a result
FilesOf(r) == {OutputFile(r.url, k) : k \in 1..r.shots}

\* the files in the output directory after the captures so far
OutputFiles == UNION {FilesOf(results[i]) : i \in 1..Len(results)}

\* C32: two results with different normalized URLs never share a screenshot
\* file, so the files in the output directory are as many as the screenshots
\* counted, and the report's screenshot count is the number of files.
C32_OneFilePerScreenshot ==
    /\ \A i, j \in 1..Len(results) :
        NormalizeUrl(results[i].url) # NormalizeUrl(results[j].url)
            => FilesOf(results[i]) \cap FilesOf(results[j]) = {}
    /\ Cardinality(OutputFiles) = SumShots(results)
    /\ report.produced => report.screenshots = Cardinality(OutputFiles)

ResultsOf(key) == {i \in 1..Len(results) : NormalizeUrl(results[i].url) = key}

ExtractedPages == {ResultKey(i) : i \in {j \in 1..Len(results) : results[j].linksExtracted}}

\* the URLs the page of the site "graph" links to and shouldCrawl accepts
CrawlableLinks(url) == {LinkKey(l) : l \in SeqRange(ExtractLinks(GraphAnchors(url)))}

RECURSIVE WithinHops(_)
\* the URLs at most k crawlable-link hops away from the seed, through pages
\* whose links were extracted
WithinHops(k) ==
    IF k = 0 THEN {NormalizeUrl(StartUrl)}
    ELSE LET near == WithinHops(k - 1)
         IN  near \cup UNION {CrawlableLinks(p) : p \in near \cap ExtractedPages}

\* C35: in ExplorerEngine the depth of every result is the breadth-first
\* distance of its URL: the least number of crawlable-link hops from the seed
\* through pages whose links were extracted, also for a URL that pages at
\* different depths link to.
C35_DepthIsDistance ==
    (impl = "playwright" /\ site = "graph") =>
        \A i \in 1..Len(results) :
            /\ ResultKey(i) \in WithinHops(results[i].depth)
            /\ results[i].depth > 0 => ResultKey(i) \notin WithinHops(results[i].depth - 1)

\* all four pages of the site "graph" captured: /b, linked from the start
\* page and from /a, at depth 1 after its second frontier entry was skipped,
\* and /c at depth 2
C35_Witness ==
    /\ impl = "playwright" /\ site = "graph" /\ status = "completed"
    /\ Len(results) = 4 /\ calls.skips > 0
    /\ \E i \in 1..Len(results) :
          PathOf(results[i].url) = <<"/", "b">> /\ results[i].depth = 1
    /\ \E i \in 1..Len(results) :
          PathOf(results[i].url) = <<"/", "c">> /\ results[i].depth = 2

\* the sites whose pages render fixed anchors
FixedSites == DocsSites \cup {"names", "graph"}

\* the anchors of a page of a fixed site
SiteAnchors(url) ==
    IF site \in DocsSites THEN DocsAnchors(url)
    ELSE IF site = "names" THEN NamesAnchors(url)
    ELSE GraphAnchors(url)

\* the URLs a page links to, its hrefs resolved against the page itself, that
\* pass shouldCrawl under the exclude and include lists of the run
LinksOfPage(url) ==
    {NormalizeUrl(l) : l \in SeqRange(CrawlerExtractWith(SiteAnchors(url),
                                        [CrawlOptions EXCEPT !.resolveBase = url], <<>>))}

RECURSIVE Reachable(_)
\* the URLs at most k hops away from the seed along such links, through
\* pages that loaded and had their links extracted
Reachable(k) ==
    IF k = 0 THEN {NormalizeUrl(StartUrl)}
    ELSE LET near == Reachable(k - 1)
         IN  near \cup UNION {LinksOfPage(p) : p \in near \cap ExtractedPages}

\* the run ended with the frontier empty and the page budget not reached
FrontierExhausted == status = "completed" /\ queue = <<>> /\ Len(results) < maxPages

\* C36 (as claimed): when a run ends because the frontier is empty, every
\* URL within maxDepth hops of the seed along links that pass shouldCrawl,
\* through pages that loaded and had their links extracted, has exactly one
\* result
C36_Complete ==
    (site \in FixedSites /\ FrontierExhausted) =>
        \A u \in Reachable(maxDepth) : Cardinality(ResultsOf(u)) = 1

\* ------------------------------------------------------------ capture: chunking
\* what --concurrency <number> can carry: nothing, text that is not a
\* number, or the text of an integer
CliOptions ==
    {[kind |-> "absent", n |-> 0], [kind |-> "word", n |-> 0]}
        \cup {[kind |-> "number", n |-> n] : n \in -1..MaxConcurrency}

\* parseInt(options.concurrency, 10)
ParseInt(option) == IF option.kind = "number" THEN Num(option.n) ELSE NaN

\* if (options.concurrency) config.concurrency = parseInt(options.concurrency, 10):
\* config.concurrency after the override, the loaded value being within the
\* range of the schema
Override(option, loaded) == IF option.kind = "absent" THEN Num(loaded) ELSE ParseInt(option)

\* the longest task list
MaxTasks == MaxRoutes * NumViewports

\* an index argument of Array.prototype.slice on an array of the given length
SliceIndex(k, length) ==
    IF k.nan THEN 0
    ELSE IF k.n < 0 THEN (IF length + k.n < 0 THEN 0 ELSE length + k.n)
    ELSE IF k.n > length THEN length ELSE k.n

\* array.slice(start, end) of the task list 1..length
JsSlice(length, start, end) ==
    LET from == SliceIndex(start, length)
        to == SliceIndex(end, length)
    IN  [j \in 1..(IF to > from THEN to - from ELSE 0) |-> from + j]

\* i + size; the index is kept within -MaxChunks * MaxConcurrency
Plus(i, size) ==
    IF i.nan \/ size.nan THEN NaN
    ELSE IF i.n + size.n < -(MaxChunks * MaxConcurrency) THEN i
    ELSE Num(i.n + size.n)

\* i < array.length
LoopTest(i, length) == ~i.nan /\ i.n < length

\* the capture command was called and loaded its configuration
ChunkerInit ==
    /\ impl = "playwright"
    /\ site = "any"
    /\ maxDepth = 0
    /\ maxPages = 1
    /\ Constructed
    /\ CaptureIdle
    /\ cmp = NoCmp
    /\ probe = NoProbe
    /\ \E option \in CliOptions, loaded \in 1..MaxConcurrency, length \in 0..MaxTasks :
        chunker = [NoChunker EXCEPT !.pc = "command", !.option = option,
                                    !.concurrency = Num(loaded), !.length = length]

\* the action of the capture command up to runCapture: the override of
\* config.concurrency; without routes the command returns
ApplyOverrides ==
    /\ chunker.pc = "command"
    /\ chunker' = [chunker EXCEPT
                      !.concurrency = Override(chunker.option, chunker.concurrency.n),
                      !.pc = IF chunker.length = 0 THEN "exit" ELSE "setup"]
    /\ UNCHANGED <<explorer, capture, unit, session, faults, cmp, probe>>

\* capture(): mkdir and setupAuth return, the tasks are created and
\* chunkArray is entered
CaptureEnter ==
    /\ chunker.pc = "setup"
    /\ chunker' = [chunker EXCEPT !.pc = "chunk", !.i = Num(0), !.chunks = <<>>,
                                  !.turns = 0]
    /\ UNCHANGED <<explorer, capture, unit, session, faults, cmp, probe>>

\* capture(): mkdir or setupAuth throws
CaptureSetupRejects ==
    /\ chunker.pc = "setup"
    /\ chunker' = [chunker EXCEPT !.pc = "rejected"]
    /\ UNCHANGED <<explorer, capture, unit, session, faults, cmp, probe>>

\* one turn of the for loop of chunkArray.  The list of chunks is kept to
\* its first MaxChunks entries and the index to -MaxChunks * MaxConcurrency
\* at the least, and the turns are counted modulo 2: the states with
\* pc = "chunk" in which both are at their bound stand for the loop still
\* turning, with a longer list and a lower index
ChunkPush ==
    /\ chunker.pc = "chunk"
    /\ LoopTest(chunker.i, chunker.length)
    /\ LET size == chunker.concurrency
           slice == JsSlice(chunker.length, chunker.i, Plus(chunker.i, size))
       IN  chunker' = [chunker EXCEPT
                          !.chunks = IF Len(@) < MaxChunks THEN Append(@, slice) ELSE @,
                          !.i = Plus(chunker.i, size),
                          !.turns = (@ + 1) % 2]
    /\ UNCHANGED <<explorer, capture, unit, session, faults, cmp, probe>>

\* the loop test of chunkArray fails: return chunks
ChunkReturn ==
    /\ chunker.pc = "chunk"
    /\ ~LoopTest(chunker.i, chunker.length)
    /\ chunker' = [chunker EXCEPT !.pc = "run", !.done = 0]
    /\ UNCHANGED <<explorer, capture, unit, session, faults, cmp, probe>>

\* one turn of for (const chunk of chunks): Promise.all of the chunk resolves
ChunkSettles ==
    /\ chunker.pc = "run"
    /\ chunker.done < Len(chunker.chunks)
    /\ chunker' = [chunker EXCEPT !.done = @ + 1]
    /\ UNCHANGED <<explorer, capture, unit, session, faults, cmp, probe>>

\* createContext or context.close() of a task of the chunk throws: Promise.all
\* rejects and so does capture()
ChunkRejects ==
    /\ chunker.pc = "run"
    /\ chunker.done < Len(chunker.chunks)
    /\ chunker.chunks[chunker.done + 1] # <<>>
    /\ chunker' = [chunker EXCEPT !.pc = "rejected"]
    /\ UNCHANGED <<explorer, capture, unit, session, faults, cmp, probe>>

\* capture() returns its report
ChunkerReturn ==
    /\ chunker.pc = "run"
    /\ chunker.done = Len(chunker.chunks)
    /\ chunker' = [chunker EXCEPT !.pc = "returned"]
    /\ UNCHANGED <<explorer, capture, unit, session, faults, cmp, probe>>

ChunkerNext ==
    \/ ApplyOverrides
    \/ CaptureEnter \/ CaptureSetupRejects
    \/ ChunkPush \/ ChunkReturn
    \/ ChunkSettles \/ ChunkRejects
    \/ ChunkerReturn

\* the capture command under a scheduler that runs every continuation whose
\* awaited operation has returned or failed
ChunkerSpec == ChunkerInit /\ [][ChunkerNext]_vars /\ WF_vars(ChunkerNext)

\* C37 (as claimed): for every concurrency the capture command can pass,
\* chunking the tasks finishes and capture() returns a report or rejects
C37_CaptureTerminates == <>(chunker.pc \in {"exit", "returned", "rejected"})

\* C38 (as claimed): normalizeUrl of crawler.ts is idempotent, for every
\* string and both removeQuery settings: normalizing its result again
\* returns the result
C38_Idempotent ==
    probe.pc = "normalizeUrl" =>
        CrawlerNormalizeUrl(probe.normalized, probe.removeQuery) = probe.normalized

\* ------------------------------------------------------------ approve command
\* basename(relativePath, '.png'): the screenshots "Home.png" and "about.png",
\* and a second "Home.png" in a subdirectory
BaseName(relativePath) == IF relativePath = 2 THEN <<"about">> ELSE <<"Home">>

\* the --filter lists of the approve command
Filters == { <<>>, << <<"HOME">> >>, << <<"404">>, <<"about">> >> }

\* filter.some((f) => name.toLowerCase().includes(f.toLowerCase()))
MatchesFilter(name, filter) ==
    \E k \in 1..Len(filter) : Includes(LowerSeq(name), LowerSeq(filter[k]))

\* if (filter && filter.length > 0 && !matchesFilter): skipped, continue
Skipped(name, filter) == Len(filter) > 0 /\ ~MatchesFilter(name, filter)

\* seeded fault: a baseline that exists is not overwritten
Promote_OnlyNew(baseline, current, relativePath) ==
    IF baseline[relativePath].kind = "none"
    THEN [baseline EXCEPT ![relativePath] = current[relativePath]]
    ELSE baseline

\* cp(currentPath, baselinePath): the baseline tree after the copy
Promote(baseline, current, relativePath) ==
    [baseline EXCEPT ![relativePath] = current[relativePath]]

\* the diff images a comparison of the two trees left under diffs/
DiffsLeft(b, c) ==
    {p \in Paths : b[p].kind = "png" /\ c[p].kind = "png"
                   /\ compareImages(b[p], c[p], 0, 0).diffImagePath}

\* the approve command is started on the trees the captures left
ApproveInit ==
    /\ impl = "playwright"
    /\ site = "any"
    /\ maxDepth = 0
    /\ maxPages = 1
    /\ Constructed
    /\ CaptureIdle
    /\ probe = NoProbe
    /\ chunker = NoChunker
    /\ \E b \in [Paths -> {NoFile} \cup BaselineImages],
          c \in [Paths -> {NoFile} \cup CurrentImages],
          f \in FailureThresholds, filter \in Filters :
        cmp = [NoCmp EXCEPT !.pc = "approve", !.baseline = b, !.current = c,
                            !.failureThreshold = f, !.diffs = DiffsLeft(b, c),
                            !.filter = filter, !.approve = "called"]

\* approveScreenshots up to its loop: getPngFiles(currentDir)
ApproveList ==
    /\ cmp.pc = "approve"
    /\ cmp' = [cmp EXCEPT !.currentFiles = Ascending(CurrentSet), !.pc = "approveLoop"]
    /\ UNCHANGED <<explorer, capture, unit, session, faults, probe, chunker>>

\* one turn of the loop of approveScreenshots: the file is skipped by the
\* filter, or copied over its baseline and its diff image removed
ApproveFile ==
    /\ cmp.pc = "approveLoop"
    /\ cmp.next < Len(cmp.currentFiles)
    /\ LET relativePath == cmp.currentFiles[cmp.next + 1]
           name == BaseName(relativePath)
       IN  cmp' = IF Skipped(name, cmp.filter)
                  THEN [cmp EXCEPT !.skipped = Append(@, name), !.next = @ + 1]
                  ELSE [cmp EXCEPT !.baseline = Promote(@, cmp.current, relativePath),
                                   !.approved = Append(@, name),
                                   !.diffs = @ \ {relativePath},
                                   !.next = @ + 1]
    /\ UNCHANGED <<explorer, capture, unit, session, faults, probe, chunker>>

\* cp throws: approveScreenshots rejects, the command reports the failure and
\* exits with 1
ApproveFails ==
    /\ cmp.pc = "approveLoop"
    /\ cmp.next < Len(cmp.currentFiles)
    /\ ~Skipped(BaseName(cmp.currentFiles[cmp.next + 1]), cmp.filter)
    /\ cmp' = [cmp EXCEPT !.approve = "rejected", !.exit = 1, !.pc = "exited"]
    /\ UNCHANGED <<explorer, capture, unit, session, faults, probe, chunker>>

\* approveScreenshots returns {approved, skipped}; the command lists them
\* and, with --clean and something approved, removes current/ and diffs/;
\* the compare command is run next
ApproveReturn ==
    /\ cmp.pc = "approveLoop"
    /\ cmp.next = Len(cmp.currentFiles)
    /\ \E clean \in BOOLEAN :
        cmp' = IF clean /\ cmp.approved # <<>>
               THEN [cmp EXCEPT !.current = [p \in Paths |-> NoFile], !.diffs = {},
                                !.clean = TRUE, !.approve = "done", !.pc = "start"]
               ELSE [cmp EXCEPT !.approve = "done", !.pc = "start"]
    /\ UNCHANGED <<explorer, capture, unit, session, faults, probe, chunker>>

ApproveNext ==
    \/ ApproveList
    \/ ApproveFile
    \/ ApproveFails
    \/ ApproveReturn
    \/ ListFiles
    \/ ComparePath
    \/ ReturnReport

ApproveSpec == ApproveInit /\ [][ApproveNext]_vars

\* the comparison that followed an approve without filter that left current/
\* as it was has returned
RoundTrip ==
    /\ cmp.approve = "done" /\ cmp.filter = <<>> /\ ~cmp.clean
    /\ cmp.report.produced

\* the number of entries of a list equal to x
Occurrences(list, x) == Cardinality({k \in 1..Len(list) : list[k] = x})

\* approved and skipped are disjoint and together hold one entry for every
\* PNG file under current/
Partition ==
    /\ SeqRange(cmp.approved) \cap SeqRange(cmp.skipped) = {}
    /\ Len(cmp.approved) + Len(cmp.skipped) = Len(cmp.currentFiles)
    /\ \A p \in SeqRange(cmp.currentFiles) :
          Occurrences(cmp.approved \o cmp.skipped, BaseName(p))
            = Cardinality({q \in SeqRange(cmp.currentFiles) : BaseName(q) = BaseName(p)})

\* C39 (as claimed): after an approve without filter that left current/
\* unchanged, the comparison has no new or failed result, every path under
\* current/ is passed with no differing pixel, and a path only under
\* baselines/ is missing; with a filter, approved and skipped partition the
\* current PNG files
C39_RoundTrip ==
    /\ RoundTrip =>
        /\ \A k \in 1..Len(cmp.results) : cmp.results[k].status \notin {"new", "failed"}
        /\ \A p \in CurrentSet : \A k \in ResultsAt(p) :
              cmp.results[k].status = "passed" /\ cmp.results[k].diffPixels = 0
        /\ \A p \in BaselineSet \ CurrentSet : \A k \in ResultsAt(p) :
              cmp.results[k].status = "missing"
    /\ cmp.approve = "done" => Partition

\* C39 (amended): as above for every path under current/ whose file is a
\* readable PNG; a file under current/ that cannot be decoded is copied like
\* any other and the comparison reports it with status error
C39_RoundTripReadable ==
    /\ RoundTrip =>
        /\ \A k \in 1..Len(cmp.results) : cmp.results[k].status \notin {"new", "failed"}
        /\ \A p \in CurrentSet : \A k \in ResultsAt(p) :
              IF cmp.current[p].kind = "png"
              THEN cmp.results[k].status = "passed" /\ cmp.results[k].diffPixels = 0
              ELSE cmp.results[k].status = "error"
        /\ \A p \in CurrentSet : ResultsAt(p) # {}
        /\ \A p \in BaselineSet \ CurrentSet : \A k \in ResultsAt(p) :
              cmp.results[k].status = "missing"
    /\ cmp.approve = "done" => Partition

\* an approve without filter copied a current file and left a baseline
\* without current file alone; the comparison that followed, with the
\* failure threshold 0, found one passed and one missing
C39_Witness ==
    /\ RoundTrip
    /\ cmp.failureThreshold = 0
    /\ cmp.report.passed >= 1 /\ cmp.report.missing >= 1
    /\ Len(cmp.approved) >= 1

====
